---- MODULE Spec2Model ----
(***************************************************************************)
(* A model of the turn-resolution engine of sugoroku:                      *)
(*   game_system/player_status.rs  PlayerStatus, PlayerOrder::next_player  *)
(*   game_system/area.rs           Area::execute and the AreaEffect impls  *)
(*   game_system/world.rs          World::dice_roll, check_goal_player     *)
(*   user_interface/tui/status.rs  the turn loop that drives them          *)
(*                                                                         *)
(* Option<u8> is modelled as a sequence: <<>> is None, <<r>> is Some(r).   *)
(* An area description is modelled by the index of the area it is taken    *)
(* from.  A HashMap is a function whose DOMAIN is its key set.             *)
(***************************************************************************)
EXTENDS Integers, Sequences, FiniteSets, TLC

\* ---------------------------------------------------------------- bounds
\* largest number of configured areas (between the start and the goal)
MaxArea == 1
\* largest effect parameter (num / times) of a generated board
MaxNum == 2
\* largest dice_max of a generated board
MaxDice == 2
\* dice_roll is not called once it would take a position beyond this
MaxPosition == 4
\* how far from 0 and from usize::MAX the positions and distances of a
\* PlayerStatus call are taken
MaxEdge == 3

\* ------------------------------------------------------ integer widths
\* u8::MAX (PlayerStatus::num_skip is a u8)
U8_MAX == 255
\* usize::MAX as far as TLC's integers reach
USIZE_MAX == 2147483647

\* an addition that starts again from 0 past max
wrapping_add(a, b, max) == (a + b) % (max + 1)

\* a.saturating_add(b) for a <= max, computed without leaving 0..max
saturating_add(a, b, max) == IF b > max - a THEN max ELSE a + b

\* a subtraction that does not stop at 0
wrapping_sub(a, b) == a - b

saturating_sub(a, b) == IF a < b THEN 0 ELSE a - b

\* -------------------------------------------------------- PlayerStatus
None == <<>>

Some(x) == <<x>>

PlayerStatus_default == [position |-> 0, num_skip |-> 0, order_of_arrival |-> None]

\* a set_position that leaves the position alone
set_position_kept(s, position) == s

set_position(s, position) == [s EXCEPT !.position = position]

add_num_skip(s, x) == [s EXCEPT !.num_skip = saturating_add(@, x, U8_MAX)]

sub_num_skip(s, x) == [s EXCEPT !.num_skip = saturating_sub(@, x)]

\* every arrival handed rank 1
set_order_of_arrival_first(s, order_of_arrival) ==
    [s EXCEPT !.order_of_arrival = Some(1)]

set_order_of_arrival(s, order_of_arrival) ==
    [s EXCEPT !.order_of_arrival = Some(order_of_arrival)]

\* a go_forward that does not move
go_forward_staying(s, n) == s

go_forward(s, n) == [s EXCEPT !.position = saturating_add(@, n, USIZE_MAX)]

go_backward(s, n) == [s EXCEPT !.position = saturating_sub(@, n)]

\* ------------------------------------------------------------- results
\* Result<_, GameSystemError>: one record shape for every outcome
Ok(v) == [kind |-> "Ok", player |-> "", value |-> v]

NotFoundPlayer(p) == [kind |-> "NotFoundPlayer", player |-> p, value |-> 0]

OutOfRangeDice(d) == [kind |-> "OutOfRangeDice", player |-> "", value |-> d]

OutOfRangePosition(p, pos) == [kind |-> "OutOfRangePosition", player |-> p, value |-> pos]

IsOk(r) == r.kind = "Ok"

\* ---------------------------------------------------------- AreaEffect
\* HashMap::get_mut(player) followed by one PlayerStatus method; the
\* lookup fails with NotFoundPlayer when the key is absent
Unit(t) == [tbl |-> t, res |-> Ok(0)]

Fail(t, r) == [tbl |-> t, res |-> r]

NoEffect_execute(e, current_player, player_order, t) == Unit(t)

GoToStart_execute(e, current_player, player_order, t) ==
    IF current_player \notin DOMAIN t
    THEN Fail(t, NotFoundPlayer(current_player))
    ELSE Unit([t EXCEPT ![current_player] = set_position(@, 0)])

\* SkipSelf adding one skip whatever its times
SkipSelf_execute_once(e, current_player, player_order, t) ==
    IF current_player \notin DOMAIN t
    THEN Fail(t, NotFoundPlayer(current_player))
    ELSE Unit([t EXCEPT ![current_player] = add_num_skip(@, 1)])

SkipSelf_execute(e, current_player, player_order, t) ==
    IF current_player \notin DOMAIN t
    THEN Fail(t, NotFoundPlayer(current_player))
    ELSE Unit([t EXCEPT ![current_player] = add_num_skip(@, e.num)])

\* PushSelf moving the player the wrong way
PushSelf_execute_backward(e, current_player, player_order, t) ==
    IF current_player \notin DOMAIN t
    THEN Fail(t, NotFoundPlayer(current_player))
    ELSE Unit([t EXCEPT ![current_player] = go_backward(@, e.num)])

PushSelf_execute(e, current_player, player_order, t) ==
    IF current_player \notin DOMAIN t
    THEN Fail(t, NotFoundPlayer(current_player))
    ELSE Unit([t EXCEPT ![current_player] = go_forward(@, e.num)])

PullSelf_execute(e, current_player, player_order, t) ==
    IF current_player \notin DOMAIN t
    THEN Fail(t, NotFoundPlayer(current_player))
    ELSE Unit([t EXCEPT ![current_player] = go_backward(@, e.num)])

\* for player in player_order { if player != current_player { ...? } }
RECURSIVE PushOthersAll_loop(_, _, _, _, _)
PushOthersAll_loop(e, current_player, player_order, t, i) ==
    IF i > Len(player_order) THEN Unit(t)
    ELSE IF player_order[i] = current_player
         THEN PushOthersAll_loop(e, current_player, player_order, t, i + 1)
    ELSE IF player_order[i] \notin DOMAIN t
         THEN Fail(t, NotFoundPlayer(player_order[i]))
    ELSE PushOthersAll_loop(e, current_player, player_order,
             [t EXCEPT ![player_order[i]] = go_forward(@, e.num)], i + 1)

\* the push of the other players undone when a later player is missing
PushOthersAll_execute_undone(e, current_player, player_order, t) ==
    LET r == PushOthersAll_loop(e, current_player, player_order, t, 1)
    IN  IF IsOk(r.res) THEN r ELSE Fail(t, r.res)

PushOthersAll_execute(e, current_player, player_order, t) ==
    PushOthersAll_loop(e, current_player, player_order, t, 1)

RECURSIVE PullOthersAll_loop(_, _, _, _, _)
PullOthersAll_loop(e, current_player, player_order, t, i) ==
    IF i > Len(player_order) THEN Unit(t)
    ELSE IF player_order[i] = current_player
         THEN PullOthersAll_loop(e, current_player, player_order, t, i + 1)
    ELSE IF player_order[i] \notin DOMAIN t
         THEN Fail(t, NotFoundPlayer(player_order[i]))
    ELSE PullOthersAll_loop(e, current_player, player_order,
             [t EXCEPT ![player_order[i]] = go_backward(@, e.num)], i + 1)

\* the pull reaching every roster player, the current one included
PullOthersAll_execute_everyone(e, current_player, player_order, t) ==
    PullOthersAll_loop(e, "", player_order, t, 1)

PullOthersAll_execute(e, current_player, player_order, t) ==
    PullOthersAll_loop(e, current_player, player_order, t, 1)

\* dynamic dispatch of AreaEffect::execute on the effect's type
AreaEffect_execute(e, current_player, player_order, t) ==
    CASE e.name = "NoEffect"      -> NoEffect_execute(e, current_player, player_order, t)
      [] e.name = "GoToStart"     -> GoToStart_execute(e, current_player, player_order, t)
      [] e.name = "SkipSelf"      -> SkipSelf_execute(e, current_player, player_order, t)
      [] e.name = "PushSelf"      -> PushSelf_execute(e, current_player, player_order, t)
      [] e.name = "PushOthersAll" -> PushOthersAll_execute(e, current_player, player_order, t)
      [] e.name = "PullSelf"      -> PullSelf_execute(e, current_player, player_order, t)
      [] e.name = "PullOthersAll" -> PullOthersAll_execute(e, current_player, player_order, t)

\* ---------------------------------------------------------------- Area
\* for effect in self.effect_list.iter() { effect.execute(..)?; } Ok(())
RECURSIVE Area_execute_loop(_, _, _, _, _)
Area_execute_loop(effect_list, current_player, player_order, t, i) ==
    IF i > Len(effect_list) THEN Unit(t)
    ELSE LET r == AreaEffect_execute(effect_list[i], current_player, player_order, t)
         IN  IF IsOk(r.res)
             THEN Area_execute_loop(effect_list, current_player, player_order, r.tbl, i + 1)
             ELSE r

\* the effects of the area run a second time when the first run succeeded
Area_execute_twice(area, current_player, player_order, t) ==
    LET x == Area_execute_loop(area.effect_list, current_player, player_order, t, 1)
    IN  IF ~IsOk(x.res) THEN x
        ELSE Area_execute_loop(area.effect_list, current_player, player_order, x.tbl, 1)

Area_execute(area, current_player, player_order, t) ==
    Area_execute_loop(area.effect_list, current_player, player_order, t, 1)

\* the goal check without its order_of_arrival() == None test
GoalArrivals_ranked_again(area_list, t) ==
    {p \in DOMAIN t : t[p].position >= Len(area_list) - 1}

\* the goal check acting only on a player exactly on the goal square
GoalArrivals_exact(area_list, t) ==
    {p \in DOMAIN t : /\ t[p].order_of_arrival = None
                      /\ t[p].position = Len(area_list) - 1}

\* --------------------------------------------------------------- World
\* the players the goal-check pass acts on
GoalArrivals(area_list, t) ==
    {p \in DOMAIN t : /\ t[p].order_of_arrival = None
                      /\ t[p].position >= Len(area_list) - 1}

\* the goal check counting one arrival per pass, however many arrived
check_goal_player_counting_one(area_list, num_goal_player, t) ==
    LET arrived == GoalArrivals(area_list, t)
    IN  [tbl |-> [p \in DOMAIN t |->
                    IF p \in arrived
                    THEN set_position(
                             set_order_of_arrival(t[p], num_goal_player + 1),
                             Len(area_list) - 1)
                    ELSE t[p]],
         num_goal_player |-> num_goal_player + IF arrived = {} THEN 0 ELSE 1]

\* every player of one pass is handed self.num_goal_player + 1: the field
\* is only updated after the loop, so the visiting order of values_mut()
\* does not show in the outcome
check_goal_player(area_list, num_goal_player, t) ==
    LET arrived == GoalArrivals(area_list, t)
    IN  [tbl |-> [p \in DOMAIN t |->
                    IF p \in arrived
                    THEN set_position(
                             set_order_of_arrival(t[p], num_goal_player + 1),
                             Len(area_list) - 1)
                    ELSE t[p]],
         num_goal_player |-> num_goal_player + Cardinality(arrived)]

\* the description re-fetched at the position the effects left
dice_roll_description_refetched(current_player_position, t, current_player) ==
    t[current_player].position

\* the index whose area description a successful dice_roll returns
dice_roll_description(current_player_position, t, current_player) ==
    current_player_position

\* the range check without its lower bound (dice = 0 accepted)
dice_out_of_range_upper_only(dice_max, dice) == dice_max < dice

\* if dice < 1 || self.dice_max < dice
dice_out_of_range(dice_max, dice) == dice < 1 \/ dice_max < dice

\* the goal check run although the effects failed
effect_failed_goal_checked(area_list, g1, x) ==
    LET g2 == check_goal_player(area_list, g1.num_goal_player, x.tbl)
    IN  [tbl |-> g2.tbl, num_goal_player |-> g2.num_goal_player, res |-> x.res]

\* .execute(...)? returns the error at once: the table as the effects
\* left it, the goal counter as the first goal check left it
effect_failed(area_list, g1, x) ==
    [tbl |-> x.tbl, num_goal_player |-> g1.num_goal_player, res |-> x.res]

dice_roll(area_list, dice_max, num_goal_player, dice, current_player, player_order, t) ==
    IF dice_out_of_range(dice_max, dice)
    THEN [tbl |-> t, num_goal_player |-> num_goal_player, res |-> OutOfRangeDice(dice)]
    ELSE IF current_player \notin DOMAIN t
    THEN [tbl |-> t, num_goal_player |-> num_goal_player,
          res |-> NotFoundPlayer(current_player)]
    ELSE
    LET t1 == [t EXCEPT ![current_player] = go_forward(@, dice)]
        g1 == check_goal_player(area_list, num_goal_player, t1)
        current_player_position == g1.tbl[current_player].position
    IN  IF current_player_position + 1 \notin DOMAIN area_list
        THEN [tbl |-> g1.tbl, num_goal_player |-> g1.num_goal_player,
              res |-> OutOfRangePosition(current_player, current_player_position)]
        ELSE
        LET x == Area_execute(area_list[current_player_position + 1],
                              current_player, player_order, g1.tbl)
        IN  IF ~IsOk(x.res)
            THEN effect_failed(area_list, g1, x)
            ELSE
            LET g2 == check_goal_player(area_list, g1.num_goal_player, x.tbl)
            IN  [tbl |-> g2.tbl, num_goal_player |-> g2.num_goal_player,
                 res |-> Ok(dice_roll_description(current_player_position,
                                                  g2.tbl, current_player))]

\* ------------------------------------- the goal check's visiting order
\* HashMap::values_mut() visits the entries in an order of its own: every
\* sequence that names each key of the table once
VisitingOrders(t) ==
    {o \in [1..Cardinality(DOMAIN t) -> DOMAIN t] :
        \A i, j \in DOMAIN o : i # j => o[i] # o[j]}

\* the rank counting the arrivals the pass has found so far
arrival_rank_running(num_goal_player, num_new_goal_player) ==
    num_goal_player + num_new_goal_player + 1

\* player_status.set_order_of_arrival(self.num_goal_player + 1)
arrival_rank(num_goal_player, num_new_goal_player) == num_goal_player + 1

\* the for loop of check_goal_player over values_mut(), entry by entry
RECURSIVE check_goal_player_loop(_, _, _, _, _, _)
check_goal_player_loop(area_list, num_goal_player, t, visiting, i, num_new_goal_player) ==
    IF i > Len(visiting)
    THEN [tbl |-> t, num_goal_player |-> num_goal_player + num_new_goal_player]
    ELSE LET p == visiting[i]
         IN  IF /\ t[p].order_of_arrival = None
                /\ t[p].position >= Len(area_list) - 1
             THEN check_goal_player_loop(
                      area_list, num_goal_player,
                      [t EXCEPT ![p] =
                          set_position(
                              set_order_of_arrival(
                                  @, arrival_rank(num_goal_player, num_new_goal_player)),
                              Len(area_list) - 1)],
                      visiting, i + 1, num_new_goal_player + 1)
             ELSE check_goal_player_loop(area_list, num_goal_player, t,
                                         visiting, i + 1, num_new_goal_player)

\* World::dice_roll with the visiting orders of its two goal checks given
dice_roll_visiting(area_list, dice_max, num_goal_player, dice, current_player, player_order, t, first, second) ==
    IF dice_out_of_range(dice_max, dice)
    THEN [tbl |-> t, num_goal_player |-> num_goal_player, res |-> OutOfRangeDice(dice)]
    ELSE IF current_player \notin DOMAIN t
    THEN [tbl |-> t, num_goal_player |-> num_goal_player,
          res |-> NotFoundPlayer(current_player)]
    ELSE
    LET t1 == [t EXCEPT ![current_player] = go_forward(@, dice)]
        g1 == check_goal_player_loop(area_list, num_goal_player, t1, first, 1, 0)
        current_player_position == g1.tbl[current_player].position
    IN  IF current_player_position + 1 \notin DOMAIN area_list
        THEN [tbl |-> g1.tbl, num_goal_player |-> g1.num_goal_player,
              res |-> OutOfRangePosition(current_player, current_player_position)]
        ELSE
        LET x == Area_execute(area_list[current_player_position + 1],
                              current_player, player_order, g1.tbl)
        IN  IF ~IsOk(x.res)
            THEN effect_failed(area_list, g1, x)
            ELSE
            LET g2 == check_goal_player_loop(area_list, g1.num_goal_player,
                                             x.tbl, second, 1, 0)
            IN  [tbl |-> g2.tbl, num_goal_player |-> g2.num_goal_player,
                 res |-> Ok(dice_roll_description(current_player_position,
                                                  g2.tbl, current_player))]

\* --------------------------------------------------------- PlayerOrder
\* Option<String>
NoPlayerFound == [kind |-> "None", player |-> "", value |-> 0]

SomePlayer(p) == [kind |-> "Some", player |-> p, value |-> 0]

\* self.iter().cycle() run up to the first element equal to current_player
FirstIndexOf(player_order, current_player) ==
    CHOOSE i \in 1..Len(player_order) :
        /\ player_order[i] = current_player
        /\ \A j \in 1..(i - 1) : player_order[j] # current_player

\* the scan begun at current_player itself instead of right after it
Candidate_from_current(player_order, start, k) ==
    player_order[((start - 2 + k) % Len(player_order)) + 1]

\* the scan running backwards through the roster
Candidate_backward(player_order, start, k) ==
    player_order[((start - 1 + 2 * Len(player_order) - k) % Len(player_order)) + 1]

\* the k-th candidate of player_cycle.take(self.len()), k = 1..len
Candidate(player_order, start, k) ==
    player_order[((start - 1 + k) % Len(player_order)) + 1]

\* the scan stopping at a candidate whatever its pending skips
next_player_visit_ignoring_skip(t, player) == [tbl |-> t, found |-> TRUE]

\* the scan passing a skipping candidate without counting the skip down
next_player_visit_keeping_skip(t, player) ==
    [tbl |-> t, found |-> t[player].num_skip = 0]

\* what the scan does with a candidate that has not arrived
next_player_visit(t, player) ==
    IF t[player].num_skip # 0
    THEN [tbl |-> [t EXCEPT ![player] = sub_num_skip(@, 1)], found |-> FALSE]
    ELSE [tbl |-> t, found |-> TRUE]

RECURSIVE next_player_loop(_, _, _, _)
next_player_loop(player_order, start, t, k) ==
    IF k > Len(player_order) THEN [tbl |-> t, res |-> NoPlayerFound]
    ELSE LET player == Candidate(player_order, start, k)
         IN  IF player \notin DOMAIN t
             THEN [tbl |-> t, res |-> NotFoundPlayer(player)]
             ELSE IF t[player].order_of_arrival # None
             THEN next_player_loop(player_order, start, t, k + 1)
             ELSE LET v == next_player_visit(t, player)
                  IN  IF v.found
                      THEN [tbl |-> v.tbl, res |-> SomePlayer(player)]
                      ELSE next_player_loop(player_order, start, v.tbl, k + 1)

\* an empty roster panics on unwrap(); a current_player that is not in
\* the roster never leaves the first loop
next_player(player_order, current_player, t) ==
    IF Len(player_order) = 0
    THEN [tbl |-> t, res |-> [kind |-> "Panic", player |-> "", value |-> 0]]
    ELSE IF \A i \in 1..Len(player_order) : player_order[i] # current_player
    THEN [tbl |-> t, res |-> [kind |-> "Diverges", player |-> "", value |-> 0]]
    ELSE next_player_loop(player_order,
                          FirstIndexOf(player_order, current_player), t, 1)

\* --------------------------------------------------- boards and rosters
Effect(name, num) == [name |-> name, num |-> num]

\* Area::new(description, effect_list); the description is the area's index
Area(effect_list) == [effect_list |-> effect_list]

\* the effects a configuration file can name, with parameters 1..MaxNum
Effects ==
    {Effect("NoEffect", 0), Effect("GoToStart", 0)} \cup
    {Effect(name, num) : name \in {"SkipSelf", "PushSelf", "PushOthersAll",
                                   "PullSelf", "PullOthersAll"},
                         num \in 1..MaxNum}

ConfiguredAreas == {Area(<<e>>) : e \in Effects}

\* the board without its goal area
AreaList_without_goal(configured) ==
    <<Area(<<Effect("NoEffect", 0)>>)>> \o configured

\* read_world_from_file: start area, the configured areas, goal area
AreaList(configured) ==
    <<Area(<<Effect("NoEffect", 0)>>)>> \o configured \o <<Area(<<Effect("NoEffect", 0)>>)>>

AreaLists ==
    {AreaList(c) : c \in UNION {[1..n -> ConfiguredAreas] : n \in 0..MaxArea}}

Players == <<"A", "B", "C">>

PlayerNames == {Players[i] : i \in 1..Len(Players)}

\* read_player_list_from_file on distinct names: the roster and a table
\* of default statuses
Rosters == {SubSeq(Players, 1, n) : n \in 1..Len(Players)}

StatusTable(roster) ==
    [p \in {roster[i] : i \in 1..Len(roster)} |-> PlayerStatus_default]

\* the end-to-end example: start, PushSelf num=2, goal; dice_max 6; A, B
ExampleGame ==
    [area_list |-> AreaList(<<Area(<<Effect("PushSelf", 2)>>)>>),
     dice_max |-> 6, player_order |-> <<"A", "B">>]

\* a board whose PushSelf square leads to a SkipSelf square
ChainGame ==
    [area_list |-> AreaList(<<Area(<<Effect("PushSelf", 1)>>),
                              Area(<<Effect("SkipSelf", 1)>>)>>),
     dice_max |-> 2, player_order |-> <<"A", "B">>]

Games ==
    {[area_list |-> a, dice_max |-> d, player_order |-> r] :
        a \in AreaLists, d \in 1..MaxDice, r \in Rosters}
    \cup {ExampleGame, ChainGame}

\* the positions and distances next to either end of the usize range
EdgeValues == {e : e \in 0..MaxEdge} \cup {USIZE_MAX - e : e \in 0..MaxEdge}

\* ------------------------------------------------- configuration files
\* the longest list of players in a player-list file
MaxNames == 4

\* Err(GameSystemError::DuplicatePlayer(name))
DuplicatePlayer(name) == [kind |-> "DuplicatePlayer", player |-> name, value |-> 0]

\* a table that never reports a key as present
contains_key_never(t, name) == FALSE

\* HashMap::contains_key
contains_key(t, name) == name \in DOMAIN t

\* HashMap::insert
insert(t, name, s) == [p \in DOMAIN t \cup {name} |-> IF p = name THEN s ELSE t[p]]

\* the for loop of read_player_list_from_file
RECURSIVE read_player_list_loop(_, _, _, _)
read_player_list_loop(names, i, order, t) ==
    IF i > Len(names) THEN [res |-> Ok(0), order |-> order, tbl |-> t]
    ELSE IF contains_key(t, names[i])
    THEN [res |-> DuplicatePlayer(names[i]), order |-> <<>>, tbl |-> <<>>]
    ELSE read_player_list_loop(names, i + 1, Append(order, names[i]),
                               insert(t, names[i], PlayerStatus_default))

\* read_player_list_from_file on the names of a parsed file
read_player_list(names) == read_player_list_loop(names, 1, <<>>, <<>>)

\* a string is the sequence of its characters; a word that holds no
\* separator and no whitespace counts as one character
Whitespace == " "

NotWhitespace(c) == c # Whitespace

\* str::split: the pieces between the separators, one more than there
\* are separators
RECURSIVE split(_, _)
split(s, sep) ==
    IF \A i \in 1..Len(s) : s[i] # sep THEN <<s>>
    ELSE LET k == CHOOSE i \in 1..Len(s) :
                      s[i] = sep /\ \A j \in 1..(i - 1) : s[j] # sep
         IN  <<SubSeq(s, 1, k - 1)>> \o split(SubSeq(s, k + 1, Len(s)), sep)

DigitChars == <<"0", "1", "2", "3", "4", "5", "6", "7", "8", "9">>

IsDigit(c) == \E d \in 1..Len(DigitChars) : DigitChars[d] = c

DigitOf(c) == (CHOOSE d \in 1..Len(DigitChars) : DigitChars[d] = c) - 1

RECURSIVE DigitsValue(_)
DigitsValue(s) ==
    IF s = <<>> THEN 0
    ELSE DigitsValue(SubSeq(s, 1, Len(s) - 1)) * 10 + DigitOf(s[Len(s)])

\* the digits of a number: a leading '+' is dropped
unsigned_digits(s) ==
    IF s # <<>> /\ s[1] = "+" THEN SubSeq(s, 2, Len(s)) ELSE s

\* str::parse for u8 and usize: an optional '+', then decimal digits, at
\* least one, that denote no more than max
parse_unsigned(s, max) ==
    LET digits == unsigned_digits(s)
    IN  IF \/ digits = <<>>
           \/ \E i \in 1..Len(digits) : ~IsDigit(digits[i])
           \/ DigitsValue(digits) > max
        THEN [ok |-> FALSE, value |-> 0]
        ELSE [ok |-> TRUE, value |-> DigitsValue(digits)]

\* Err(anyhow::Error): a wrong format, wrong parameters, or
\* GameSystemError::NotFoundAreaType
ParseError(err) == [ok |-> FALSE, effect |-> Effect("NoEffect", 0), err |-> err]

Parsed(e) == [ok |-> TRUE, effect |-> e, err |-> ""]

\* a list that never reports a key as present
key_value_list_contains_key_never(list, key) == FALSE

\* key_value_list.contains_key(&key)
key_value_list_contains_key(list, key) ==
    \E j \in 1..Len(list) : list[j].key = key

\* try_get_key_value_list: the pairs of a comma separated key=value list,
\* an error (ok = FALSE) for a piece that is not key=value or repeats a key
RECURSIVE key_value_loop(_, _, _)
key_value_loop(pieces, i, list) ==
    IF i > Len(pieces) THEN [ok |-> TRUE, list |-> list]
    ELSE LET key_value_strings == split(pieces[i], "=")
         IN  IF Len(key_value_strings) # 2
             THEN [ok |-> FALSE, list |-> <<>>]
             ELSE IF key_value_list_contains_key(list, key_value_strings[1])
             THEN [ok |-> FALSE, list |-> <<>>]
             ELSE key_value_loop(pieces, i + 1,
                      Append(list, [key |-> key_value_strings[1],
                                    value |-> key_value_strings[2]]))

try_get_key_value_list(effect_parameters) ==
    key_value_loop(split(effect_parameters, ","), 1, <<>>)

\* GoToStart::from_str: the parameters must be empty
GoToStart_from_str(effect_parameters) ==
    IF effect_parameters # <<>> THEN ParseError("Parameters") ELSE Parsed(Effect("GoToStart", 0))

\* from_str of the effects with one parameter: every pair must carry the
\* expected key and a value that parses; the parameter starts at 0
parameter_from_str(name, expected_key, max, effect_parameters) ==
    LET l == try_get_key_value_list(effect_parameters)
    IN  IF ~l.ok THEN ParseError("Parameters")
        ELSE IF \E j \in 1..Len(l.list) :
                    \/ l.list[j].key # <<expected_key>>
                    \/ ~parse_unsigned(l.list[j].value, max).ok
        THEN ParseError("Parameters")
        ELSE IF l.list = <<>> THEN Parsed(Effect(name, 0))
        ELSE Parsed(Effect(name, parse_unsigned(l.list[1].value, max).value))

\* <Box<dyn AreaEffect> as FromStr>::from_str
AreaEffect_from_str(area_effect_str) ==
    LET area_effect_strings == split(SelectSeq(area_effect_str, NotWhitespace), ":")
    IN  IF Len(area_effect_strings) # 2 THEN ParseError("Format")
        ELSE LET effect_name == area_effect_strings[1]
                 effect_parameters == area_effect_strings[2]
             IN  CASE effect_name = <<"GoToStart">> -> GoToStart_from_str(effect_parameters)
                   [] effect_name = <<"SkipSelf">> ->
                        parameter_from_str("SkipSelf", "times", U8_MAX, effect_parameters)
                   [] effect_name \in {<<"PushSelf">>, <<"PushOthersAll">>,
                                       <<"PullSelf">>, <<"PullOthersAll">>} ->
                        parameter_from_str(effect_name[1], "num", USIZE_MAX,
                                           effect_parameters)
                   [] OTHER -> ParseError("NotFoundAreaType")

\* the collect() of read_world_from_file over one area's effect elements:
\* the effects in order, or the first error
RECURSIVE effect_list_from(_, _, _)
effect_list_from(elements, i, effect_list) ==
    IF i > Len(elements) THEN [ok |-> TRUE, effect_list |-> effect_list, err |-> ""]
    ELSE LET e == AreaEffect_from_str(elements[i])
         IN  IF ~e.ok THEN [ok |-> FALSE, effect_list |-> <<>>, err |-> e.err]
             ELSE effect_list_from(elements, i + 1, Append(effect_list, e.effect))

\* the effect list of one configured area: a missing effect key gives a
\* single NoEffect, a present one gives what its elements parse to
area_effect_list(area_description) ==
    IF area_description.effect # None
    THEN effect_list_from(area_description.effect[1], 1, <<>>)
    ELSE [ok |-> TRUE, effect_list |-> <<Effect("NoEffect", 0)>>, err |-> ""]

\* the for loop of read_world_from_file over the configured areas
RECURSIVE configured_areas(_, _, _)
configured_areas(area, i, configured) ==
    IF i > Len(area) THEN [ok |-> TRUE, configured |-> configured, err |-> ""]
    ELSE LET l == area_effect_list(area[i])
         IN  IF ~l.ok THEN [ok |-> FALSE, configured |-> <<>>, err |-> l.err]
             ELSE configured_areas(area, i + 1, Append(configured, Area(l.effect_list)))

LoadError(err) == [kind |-> err, player |-> "", value |-> 0]

\* read_world_from_file on the areas of a parsed file
read_world(area) ==
    LET c == configured_areas(area, 1, <<>>)
    IN  IF ~c.ok THEN [res |-> LoadError(c.err), area_list |-> <<>>]
        ELSE [res |-> Ok(0), area_list |-> AreaList(c.configured)]

\* the element strings of the files that are read
ElementStrings ==
    {<<"GoToStart", ":">>,
     <<"SkipSelf", ":", " ", "times", " ", "=", " ", "1">>,
     <<"PushSelf", ":", "num", "=", "2">>,
     <<"NoEffect", ":">>,
     <<"PullSelf", ":", "num", "=", "1", ",">>}

\* an effect key holds no element, one or two
ElementLists ==
    {<<>>} \cup {<<e>> : e \in ElementStrings}
           \cup {<<e, f>> : e \in ElementStrings, f \in ElementStrings}

\* AreaDescription: the effect key absent or present
AreaDescriptions ==
    {[effect |-> None]} \cup {[effect |-> Some(l)] : l \in ElementLists}

\* the parsed files: a player list or a world
Files ==
    {[file |-> "player_list", player |-> names, area |-> <<>>] :
        names \in UNION {[1..n -> PlayerNames] : n \in 0..MaxNames}}
    \cup {[file |-> "world", player |-> <<>>, area |-> a] :
        a \in UNION {[1..n -> AreaDescriptions] : n \in 0..MaxArea}}

\* ------------------------------------------------------ user interface
\* the longest dice_string that is typed
MaxDigits == 2

\* termion's keys: Enter, Esc, Ctrl-t, Ctrl-l, Backspace, 'Y', a digit,
\* and any other key
Key(kind, digit) == [kind |-> kind, digit |-> digit]

\* the digit keys that are pressed: '0', '1' and '2'
DigitKeys == {Key("Digit", d) : d \in 0..2}

Keys ==
    {Key(k, 0) : k \in {"Enter", "Esc", "Ctrl_t", "Ctrl_l", "Backspace", "Y", "Other"}}
    \cup DigitKeys

\* the number a string of decimal digits denotes
RECURSIVE DecimalValue(_)
DecimalValue(s) ==
    IF s = <<>> THEN 0
    ELSE DecimalValue(SubSeq(s, 1, Len(s) - 1)) * 10 + s[Len(s)]

\* the digits of s from the i-th on, taken in with checked_mul(10) and
\* checked_add(digit): an error as soon as the number passes usize::MAX
RECURSIVE checked_digits(_, _, _)
checked_digits(s, i, value) ==
    IF i > Len(s) THEN [ok |-> TRUE, value |-> value]
    ELSE IF value > (USIZE_MAX - s[i]) \div 10 THEN [ok |-> FALSE, value |-> 0]
    ELSE checked_digits(s, i + 1, value * 10 + s[i])

\* str::parse::<usize>(): an empty string and a number beyond usize::MAX
\* are errors
parse_usize(s) ==
    IF s = <<>> THEN [ok |-> FALSE, value |-> 0] ELSE checked_digits(s, 1, 0)

ParseIntError == [kind |-> "ParseIntError", player |-> "", value |-> 0]

\* GameData::change_player: the next player, and the state the interface
\* moves to
change_player(player_order, current_player, t) ==
    LET r == next_player(player_order, current_player, t)
    IN  [tbl |-> r.tbl, res |-> r.res,
         current_player |-> IF r.res.kind = "Some" THEN r.res.player
                            ELSE current_player,
         ui_status |-> CASE r.res.kind = "Some" -> "DiceResult"
                         [] r.res.kind = "None" -> "GameFinished"
                         [] OTHER -> "Aborted"]

\* the games played through the interface: one configured area, a dice of
\* one face, one or two players
UiGames ==
    {[area_list |-> AreaList(<<a>>), dice_max |-> 1,
      player_order |-> SubSeq(Players, 1, n)] :
        a \in ConfiguredAreas, n \in 1..2}

\* ------------------------------------------------------ the turn loop
VARIABLES
    area_list,            \* World::area_list
    dice_max,             \* World::dice_max
    num_goal_player,      \* World::num_goal_player
    player_order,         \* GameData::player_order
    player_status_table,  \* GameData::player_status_table
    current_player,       \* GameData::current_player
    pc,                   \* the call the driver makes next
    dice,                 \* the dice value of the latest dice_roll call
    result,               \* what the latest engine call returned
    turn_log,             \* the latest turns of the current skip-free stretch
    ui_status,            \* GameData::ui_status
    ui_status_buffer,     \* GameData::ui_status_buffer
    dice_string,          \* TextSet::dice_string, a sequence of digits
    input                 \* the argument of a loader or PlayerStatus call

vars == <<area_list, dice_max, num_goal_player, player_order,
          player_status_table, current_player, pc, dice, result, turn_log,
          ui_status, ui_status_buffer, dice_string, input>>

\* the user interface's own fields, and the argument of a direct call
ui_vars == <<ui_status, ui_status_buffer, dice_string>>

\* GameData::try_new and TextSet::default
UiInit ==
    /\ ui_status = "TitleMenu"
    /\ ui_status_buffer = "TitleMenu"
    /\ dice_string = <<>>

NoInput == <<>>

\* the players without an arrival rank
NotArrived(t) == {p \in DOMAIN t : t[p].order_of_arrival = None}

\* a turn: the player prompted to roll, and who was still in play then
Turn(p, t) == [player |-> p, active |-> NotArrived(t)]

\* the log keeps the turns since the last scan that met a pending skip,
\* at most one more than there are players
LogTurn(log, t, p) ==
    LET n == Len(player_order)
        l == IF \E q \in DOMAIN t : t[q].num_skip # 0
             THEN <<Turn(p, t)>>
             ELSE Append(log, Turn(p, t))
    IN  IF Len(l) > n + 1 THEN SubSeq(l, Len(l) - n, Len(l)) ELSE l

\* World::new and GameData::try_new
Init ==
    \E g \in Games :
        /\ area_list = g.area_list
        /\ dice_max = g.dice_max
        /\ num_goal_player = 0
        /\ player_order = g.player_order
        /\ player_status_table = StatusTable(g.player_order)
        /\ current_player = g.player_order[1]
        /\ pc = "dice_roll"
        /\ dice = 0
        /\ result = [kind |-> "Start", player |-> "", value |-> 0]
        /\ turn_log = <<Turn(g.player_order[1], StatusTable(g.player_order))>>
        /\ UiInit
        /\ input = NoInput

\* the driver's next call after World::dice_roll returned r
AfterDiceRoll(r) ==
    IF IsOk(r) THEN "next_player"
    ELSE IF r.kind = "OutOfRangeDice" THEN "dice_roll"
    ELSE "aborted"

\* GameData::dice_roll on Enter, up to the return of World::dice_roll
DiceRoll(d) ==
    /\ pc = "dice_roll"
    /\ LET r == dice_roll(area_list, dice_max, num_goal_player, d,
                          current_player, player_order, player_status_table)
       IN  /\ \A p \in DOMAIN r.tbl : r.tbl[p].position <= MaxPosition
           /\ player_status_table' = r.tbl
           /\ num_goal_player' = r.num_goal_player
           /\ result' = r.res
           /\ pc' = AfterDiceRoll(r.res)
    /\ dice' = d
    /\ UNCHANGED <<area_list, dice_max, player_order, current_player, turn_log>>
    /\ UNCHANGED <<ui_vars, input>>

\* GameData::change_player
ChangePlayer ==
    /\ pc = "next_player"
    /\ LET r == next_player(player_order, current_player, player_status_table)
       IN  /\ player_status_table' = r.tbl
           /\ result' = r.res
           /\ current_player' = IF r.res.kind = "Some" THEN r.res.player
                                ELSE current_player
           /\ pc' = CASE r.res.kind = "Some" -> "dice_roll"
                      [] r.res.kind = "None" -> "finished"
                      [] OTHER -> "aborted"
           /\ turn_log' = IF r.res.kind = "Some"
                          THEN LogTurn(turn_log, player_status_table, r.res.player)
                          ELSE turn_log
    /\ UNCHANGED <<area_list, dice_max, num_goal_player, player_order, dice>>
    /\ UNCHANGED <<ui_vars, input>>

Next ==
    \/ \E d \in 0..(dice_max + 1) : DiceRoll(d)
    \/ ChangePlayer

Spec == Init /\ [][Next]_vars

\* ---------------------------------------------------------- type check
TypeOK ==
    /\ pc \in {"dice_roll", "next_player", "finished", "aborted"}
    /\ DOMAIN player_status_table = {player_order[i] : i \in 1..Len(player_order)}
    /\ \A p \in DOMAIN player_status_table :
          /\ player_status_table[p].position \in 0..MaxPosition
          /\ player_status_table[p].num_skip \in 0..U8_MAX
          /\ Len(player_status_table[p].order_of_arrival) \in {0, 1}

\* ------------------------------------------------------------- helpers
last_area_index == Len(area_list) - 1

Arrived == {p \in DOMAIN player_status_table :
               player_status_table[p].order_of_arrival # None}

Rank(p) == player_status_table[p].order_of_arrival[1]

\* ------------------------------------------------------------------ C1
\* C1: after any sequence of dice_roll calls every player's position is
\* within 0 .. len(area_list) - 1.
C1_PositionWithinBoard ==
    \A p \in DOMAIN player_status_table :
        /\ 0 <= player_status_table[p].position
        /\ player_status_table[p].position <= last_area_index

\* ------------------------------------------------------------------ C2
\* C2: after any sequence of dice_roll calls every player whose arrival
\* rank is set stands on the goal square, index len(area_list) - 1.
C2_ArrivedStaysOnGoal ==
    \A p \in Arrived : player_status_table[p].position = last_area_index

\* ------------------------------------------------------------------ C3
\* C3: the arrival ranks of the arrived players are a permutation of 1..k,
\* k the number of arrived players: no rank is shared, none is skipped.
C3_RanksArePermutation ==
    /\ \A p, q \in Arrived : p # q => Rank(p) # Rank(q)
    /\ {Rank(p) : p \in Arrived} = 1..Cardinality(Arrived)

\* ------------------------------------------------------------------ C4
\* C4: dice_roll with dice = 0 or dice > dice_max returns OutOfRangeDice
\* carrying that value and changes no position, pending_skips, arrival
\* rank, nor the goal counter.
C4_OutOfRangeDiceChangesNothing ==
    [][(pc = "dice_roll" /\ (dice' = 0 \/ dice' > dice_max))
        => /\ result' = OutOfRangeDice(dice')
           /\ player_status_table' = player_status_table
           /\ num_goal_player' = num_goal_player]_vars

C4_Witness ==
    /\ pc = "dice_roll"
    /\ result.kind = "OutOfRangeDice"
    /\ dice > dice_max
    /\ \E p \in DOMAIN player_status_table : player_status_table[p].position > 0

LandedIndex(position, d) ==
    IF position + d >= last_area_index THEN last_area_index ELSE position + d

ScanOrder(cur) ==
    LET n == Len(player_order)
        c == CHOOSE i \in 1..n : player_order[i] = cur
    IN  [k \in 1..n |-> player_order[((c + k - 1) % n) + 1]]

Eligible(p) ==
    /\ player_status_table[p].order_of_arrival = None
    /\ player_status_table[p].num_skip = 0

\* C6: next_player returns the first player of the cyclic scan (starting
\* right after current_player, ending with current_player) that has no
\* arrival rank and pending_skips = 0 when the call is made, None when
\* there is none, and never a player whose arrival rank is set.
C6_NextPlayerIsFirstEligible ==
    [][pc = "next_player" =>
        LET scan == ScanOrder(current_player)
            hits == {k \in 1..Len(scan) : Eligible(scan[k])}
        IN  /\ hits = {} => result' = NoPlayerFound
            /\ hits # {} =>
                 /\ result'.kind = "Some"
                 /\ \E k \in hits : /\ result'.player = scan[k]
                                    /\ \A j \in hits : k <= j
                 /\ player_status_table[result'.player].order_of_arrival = None
                 /\ current_player' = result'.player]_vars

C6_Witness ==
    /\ pc = "dice_roll"
    /\ result.kind = "Some"
    /\ Len(player_order) = 3
    /\ Arrived # {}
    /\ \E p \in DOMAIN player_status_table :
          /\ p # current_player
          /\ p \notin Arrived
          /\ player_status_table[p].num_skip > 0

\* ------------------------------------------------------------------ C7
\* C7: next_player returns None (game over for the driver) only when
\* every player of the roster has an arrival rank.
C7_NoneOnlyWhenAllArrived ==
    result.kind = "None" => Arrived = DOMAIN player_status_table

\* ------------------------------------------------------------------ C8
\* C8: once a player's arrival rank is set, no later dice_roll or
\* next_player call changes or clears it.
C8_RankIsSetOnce ==
    [][\A p \in DOMAIN player_status_table :
          player_status_table[p].order_of_arrival # None =>
              player_status_table'[p].order_of_arrival
                  = player_status_table[p].order_of_arrival]_vars

C8_Witness ==
    /\ pc = "next_player"
    /\ current_player \notin Arrived
    /\ num_goal_player >= 2
    /\ \E p \in Arrived : Rank(p) = 1

\* ------------------------------------------------------------------ C9
InExampleGame ==
    /\ area_list = ExampleGame.area_list
    /\ dice_max = ExampleGame.dice_max
    /\ player_order = ExampleGame.player_order

AtStart == player_status_table = StatusTable(player_order)

ExampleAfterRoll ==
    [A |-> [position |-> 2, num_skip |-> 0, order_of_arrival |-> Some(1)],
     B |-> PlayerStatus_default]

IndexOf(p) == CHOOSE i \in 1..Len(player_order) : player_order[i] = p

\* how many roster places q lies after p, cyclically (1..n; n when q = p)
CyclicDistance(p, q) ==
    LET n == Len(player_order)
        d == (IndexOf(q) - IndexOf(p) + n) % n
    IN  IF d = 0 THEN n ELSE d

\* the players passed over when the turn goes from p to q
PassedOver(p, q) ==
    {x \in DOMAIN player_status_table :
        CyclicDistance(p, x) < CyclicDistance(p, q)}

\* C10: in a stretch of the turn loop in which no player has pending
\* skips, between two consecutive turns of the same player every other
\* player still in play takes exactly one turn, in roster order; a player
\* takes two turns in a row only if no other player is still in play.
C10_RoundRobin ==
    /\ \A k \in 1..(Len(turn_log) - 1) :
          /\ turn_log[k + 1].player \in turn_log[k + 1].active
          /\ PassedOver(turn_log[k].player, turn_log[k + 1].player)
                 \cap turn_log[k + 1].active = {}
          /\ turn_log[k + 1].player = turn_log[k].player
                 => turn_log[k + 1].active = {turn_log[k].player}
    /\ \A i, j \in 1..Len(turn_log) :
          (/\ i < j
           /\ turn_log[i].player = turn_log[j].player
           /\ \A k \in (i + 1)..(j - 1) : turn_log[k].player # turn_log[i].player)
          => /\ \A k, l \in (i + 1)..(j - 1) :
                    k # l => turn_log[k].player # turn_log[l].player
             /\ \A k, l \in (i + 1)..(j - 1) :
                    k < l => CyclicDistance(turn_log[i].player, turn_log[k].player)
                             < CyclicDistance(turn_log[i].player, turn_log[l].player)

C10_Witness ==
    /\ Len(player_order) = 3
    /\ \E i \in 1..(Len(turn_log) - 2) :
          /\ Cardinality(turn_log[i + 2].active) = 2
          /\ turn_log[i + 1].player # turn_log[i].player
          /\ turn_log[i + 2].player = turn_log[i].player

\* ============================================ direct calls of the engine
\* World::dice_roll, PlayerOrder::next_player and Area::execute are public:
\* a caller may hand them any roster, table and player name

\* effect lists of one or two effects
EffectLists ==
    {<<e>> : e \in Effects} \cup {<<e, f>> : e \in Effects, f \in Effects}

\* start area, one configured area, goal area
CallAreaLists == {AreaList(<<Area(l)>>) : l \in EffectLists}

\* the rosters, the empty one included
CallRosters == {SubSeq(Players, 1, n) : n \in 0..Len(Players)}

\* tables of default statuses that miss at most one of the names
CallTables ==
    {[p \in K |-> PlayerStatus_default] :
        K \in {S \in SUBSET PlayerNames : Cardinality(S) >= Len(Players) - 1}}

\* World::new, and the arguments of the call to come
CallInit ==
    /\ area_list \in CallAreaLists
    /\ dice_max = MaxDice
    /\ num_goal_player = 0
    /\ player_order \in CallRosters
    /\ player_status_table \in CallTables
    /\ current_player \in PlayerNames
    /\ pc = "call"
    /\ dice = 0
    /\ result = [kind |-> "Start", player |-> "", value |-> 0]
    /\ turn_log = <<>>
    /\ UiInit
    /\ input = NoInput

\* World::dice_roll
CallDiceRoll(d) ==
    /\ pc = "call"
    /\ LET r == dice_roll(area_list, dice_max, num_goal_player, d,
                          current_player, player_order, player_status_table)
       IN  /\ player_status_table' = r.tbl
           /\ num_goal_player' = r.num_goal_player
           /\ result' = r.res
    /\ dice' = d
    /\ pc' = "dice_roll_returned"
    /\ UNCHANGED <<area_list, dice_max, player_order, current_player, turn_log>>
    /\ UNCHANGED <<ui_vars, input>>

\* PlayerOrder::next_player
CallNextPlayer ==
    /\ pc = "call"
    /\ LET r == next_player(player_order, current_player, player_status_table)
       IN  /\ player_status_table' = r.tbl
           /\ result' = r.res
    /\ pc' = "next_player_returned"
    /\ UNCHANGED <<area_list, dice_max, num_goal_player, player_order,
                   current_player, dice, turn_log>>
    /\ UNCHANGED <<ui_vars, input>>

\* Area::execute of the configured area
CallExecute ==
    /\ pc = "call"
    /\ LET r == Area_execute(area_list[2], current_player, player_order,
                             player_status_table)
       IN  /\ player_status_table' = r.tbl
           /\ result' = r.res
    /\ pc' = "execute_returned"
    /\ UNCHANGED <<area_list, dice_max, num_goal_player, player_order,
                   current_player, dice, turn_log>>
    /\ UNCHANGED <<ui_vars, input>>

CallNext ==
    \/ \E d \in 0..(dice_max + 1) : CallDiceRoll(d)
    \/ CallNextPlayer
    \/ CallExecute

SpecCall == CallInit /\ [][CallNext]_vars

\* the outcomes a call is documented to have
DocumentedOutcomes ==
    {"Ok", "Some", "None", "NotFoundPlayer", "OutOfRangeDice", "OutOfRangePosition"}

\* C11: next_player, dice_roll and Area::execute are total: whatever the
\* roster, the table and the current player's name are (a name outside the
\* roster and an empty roster included), the call returns a value or one
\* of the documented errors
C11_EngineCallsAreTotal ==
    pc # "call" => result.kind \in DocumentedOutcomes

\* C12: dice_roll is deterministic: whatever order each of its two goal
\* checks visits the entries of the status table in, the same world, table,
\* dice, current player and roster give the same result, the same statuses
\* and the same goal counter
C12_VisitingOrderDoesNotShow ==
    pc = "call" =>
        \A d \in 1..dice_max :
            \A first, second \in VisitingOrders(player_status_table) :
                dice_roll_visiting(area_list, dice_max, num_goal_player, d,
                                   current_player, player_order,
                                   player_status_table, first, second)
                = dice_roll(area_list, dice_max, num_goal_player, d,
                            current_player, player_order, player_status_table)

\* a call after which two players hold the same rank: they arrived in the
\* same pass
C12_Witness ==
    /\ pc = "dice_roll_returned"
    /\ IsOk(result)
    /\ \E p, q \in DOMAIN player_status_table :
          /\ p # q
          /\ player_status_table[p].order_of_arrival # None
          /\ player_status_table[p].order_of_arrival
                = player_status_table[q].order_of_arrival

\* ------------------------------------------------- effects that fail
OthersEffects == {"PushOthersAll", "PullOthersAll"}

\* the index in the roster of the first player other than the current one
\* that has no entry in the table, 0 when there is none
FirstMissingOther ==
    LET missing == {i \in 1..Len(player_order) :
                       /\ player_order[i] # current_player
                       /\ player_order[i] \notin DOMAIN player_status_table}
    IN  IF missing = {} THEN 0
        ELSE CHOOSE i \in missing : \A j \in missing : i <= j

\* an effect fails when a player it looks up has no entry in the table
EffectFails(e) ==
    CASE e.name = "NoEffect" -> FALSE
      [] e.name \in OthersEffects -> FirstMissingOther # 0
      [] OTHER -> current_player \notin DOMAIN player_status_table

\* the index of the first effect of the list that fails, 0 when none does
FirstFailing(effect_list) ==
    LET failing == {i \in 1..Len(effect_list) : EffectFails(effect_list[i])}
    IN  IF failing = {} THEN 0
        ELSE CHOOSE i \in failing : \A j \in failing : i <= j

\* the error of a failing effect names the player that was not found
FailureOf(e) ==
    IF e.name \in OthersEffects
    THEN NotFoundPlayer(player_order[FirstMissingOther])
    ELSE NotFoundPlayer(current_player)

\* whether effect e, the failing one or not, reaches player p
Reaches(e, p, failing) ==
    CASE e.name = "NoEffect" -> FALSE
      [] e.name \in OthersEffects ->
            \E i \in 1..Len(player_order) :
                /\ player_order[i] = p
                /\ p # current_player
                /\ failing => i < FirstMissingOther
      [] OTHER -> p = current_player /\ ~failing

\* what one effect does to the status of a player it reaches
Moved(e, s) ==
    CASE e.name = "GoToStart" -> [s EXCEPT !.position = 0]
      [] e.name = "SkipSelf" -> [s EXCEPT !.num_skip = @ + e.num]
      [] e.name \in {"PushSelf", "PushOthersAll"} -> [s EXCEPT !.position = @ + e.num]
      [] OTHER -> [s EXCEPT !.position = IF @ > e.num THEN @ - e.num ELSE 0]

\* the status of p after the effects i..last, the last one failing or not
RECURSIVE StatusAfter(_, _, _, _, _, _)
StatusAfter(effect_list, p, s, i, last, failing) ==
    IF i > last THEN s
    ELSE StatusAfter(effect_list, p,
                     IF Reaches(effect_list[i], p, failing /\ i = last)
                     THEN Moved(effect_list[i], s) ELSE s,
                     i + 1, last, failing)

\* the table Area::execute leaves when run on table t
TableAfter(effect_list, t) ==
    LET k == FirstFailing(effect_list)
        last == IF k = 0 THEN Len(effect_list) ELSE k
    IN  [p \in DOMAIN t |-> StatusAfter(effect_list, p, t[p], 1, last, k # 0)]

\* C13: Area::execute applies the effects in declared order and stops at
\* the first effect that fails, returning its error: what the earlier
\* effects did, and what the failing PushOthersAll or PullOthersAll did to
\* the players before the missing one in roster order, stays; no later
\* effect is applied
C13_ExecuteStopsAtFirstFailure ==
    [][pc = "call" /\ pc' = "execute_returned" =>
        LET effect_list == area_list[2].effect_list
            k == FirstFailing(effect_list)
        IN  /\ result' = IF k = 0 THEN Ok(0) ELSE FailureOf(effect_list[k])
            /\ player_status_table' = TableAfter(effect_list, player_status_table)
      ]_vars

\* a PushSelf took effect, then a PushOthersAll moved an earlier player of
\* the roster and failed on a later one
C13_Witness ==
    /\ pc = "execute_returned"
    /\ result.kind = "NotFoundPlayer"
    /\ area_list[2].effect_list[1].name = "PushSelf"
    /\ Len(area_list[2].effect_list) = 2
    /\ area_list[2].effect_list[2].name = "PushOthersAll"
    /\ current_player \in DOMAIN player_status_table
    /\ player_status_table[current_player].position > 0
    /\ \E p \in DOMAIN player_status_table :
          p # current_player /\ player_status_table[p].position > 0

\* C14: when an effect fails during dice_roll, dice_roll returns that
\* error and changes nothing after the failure: the second goal check is
\* not run, so the statuses are as the effects left them, nobody is ranked
\* or put back on the goal, and the goal counter keeps its value
C14_NothingAfterFailedEffect ==
    [][/\ pc = "call" /\ pc' = "dice_roll_returned"
       /\ ~dice_out_of_range(dice_max, dice')
       /\ current_player \in DOMAIN player_status_table
       /\ FirstFailing(area_list[LandedIndex(
              player_status_table[current_player].position, dice') + 1].effect_list) # 0
       =>
        LET landed == LandedIndex(player_status_table[current_player].position, dice')
            effect_list == area_list[landed + 1].effect_list
            t == [player_status_table EXCEPT ![current_player].position = landed]
        IN  /\ result' = FailureOf(effect_list[FirstFailing(effect_list)])
            /\ player_status_table' = TableAfter(effect_list, t)
            /\ num_goal_player' = num_goal_player
            /\ \A p \in DOMAIN player_status_table :
                  player_status_table'[p].order_of_arrival
                      = player_status_table[p].order_of_arrival
      ]_vars

\* a failed roll that left a player past the goal without a rank
C14_Witness ==
    /\ pc = "dice_roll_returned"
    /\ result.kind = "NotFoundPlayer"
    /\ current_player \in DOMAIN player_status_table
    /\ \E p \in DOMAIN player_status_table :
          /\ player_status_table[p].position > last_area_index
          /\ player_status_table[p].order_of_arrival = None

\* ================================================== the user interface
\* World::new, GameData::try_new and TextSet::default
UiGameInit ==
    \E g \in UiGames :
        /\ area_list = g.area_list
        /\ dice_max = g.dice_max
        /\ num_goal_player = 0
        /\ player_order = g.player_order
        /\ player_status_table = StatusTable(g.player_order)
        /\ current_player = g.player_order[1]
        /\ pc = "ui"
        /\ dice = 0
        /\ result = [kind |-> "Start", player |-> "", value |-> 0]
        /\ turn_log = <<>>
        /\ UiInit
        /\ input = NoInput

game_vars == <<num_goal_player, player_status_table, current_player, dice, result>>

fixed_vars == <<area_list, dice_max, player_order, turn_log, input>>

\* Esc and Ctrl-t, handled alike in DiceRoll, Skip, DiceResult and
\* GameFinished; Ctrl-l and every key a handler does not name do nothing
LeaveOrIgnore(key) ==
    /\ key.kind \in {"Esc", "Ctrl_t", "Ctrl_l", "Y", "Other", "Digit", "Backspace"}
    /\ ui_status_buffer' = IF key.kind \in {"Esc", "Ctrl_t"} THEN ui_status
                           ELSE ui_status_buffer
    /\ ui_status' = CASE key.kind = "Esc" -> "QuitMenu"
                      [] key.kind = "Ctrl_t" -> "TitleMenu"
                      [] OTHER -> ui_status
    /\ UNCHANGED <<game_vars, dice_string, pc>>

\* GameData::title_menu
GameData_title_menu(key) ==
    /\ ui_status = "TitleMenu"
    /\ ui_status' = CASE key.kind = "Enter" -> "DiceRoll"
                      [] key.kind = "Esc" -> "QuitMenu"
                      [] OTHER -> ui_status
    /\ ui_status_buffer' = IF key.kind = "Enter" THEN "DiceRoll"
                           ELSE ui_status_buffer
    /\ UNCHANGED <<game_vars, dice_string, pc>>

\* GameData::dice_roll on Enter with a dice_string that is not empty
GameData_dice_roll_enter ==
    LET parsed == parse_usize(dice_string)
        r == dice_roll(area_list, dice_max, num_goal_player, parsed.value,
                       current_player, player_order, player_status_table)
        c == change_player(player_order, current_player, r.tbl)
    IN  IF ~parsed.ok
        THEN /\ pc' = "aborted"
             /\ result' = ParseIntError
             /\ UNCHANGED <<num_goal_player, player_status_table, current_player,
                            dice, ui_vars>>
        ELSE /\ \A p \in DOMAIN r.tbl : r.tbl[p].position <= MaxPosition
             /\ dice' = parsed.value
             /\ num_goal_player' = r.num_goal_player
             /\ dice_string' = dice_string
             /\ IF IsOk(r.res)
                THEN /\ player_status_table' = c.tbl
                     /\ result' = c.res
                     /\ current_player' = c.current_player
                     /\ IF c.ui_status = "Aborted"
                        THEN pc' = "aborted" /\ UNCHANGED <<ui_status, ui_status_buffer>>
                        ELSE /\ pc' = pc
                             /\ ui_status' = c.ui_status
                             /\ ui_status_buffer' = c.ui_status
                ELSE /\ player_status_table' = r.tbl
                     /\ result' = r.res
                     /\ current_player' = current_player
                     /\ IF r.res.kind = "OutOfRangeDice"
                        THEN /\ pc' = pc
                             /\ ui_status' = "DiceResult"
                             /\ ui_status_buffer' = "DiceResult"
                        ELSE pc' = "aborted" /\ UNCHANGED <<ui_status, ui_status_buffer>>

\* GameData::dice_roll
GameData_dice_roll(key) ==
    /\ ui_status = "DiceRoll"
    /\ CASE key.kind = "Digit" ->
               /\ dice_string' = IF key.digit = 0 /\ dice_string = <<>>
                                 THEN dice_string
                                 ELSE Append(dice_string, key.digit)
               /\ Len(dice_string') <= MaxDigits
               /\ UNCHANGED <<game_vars, ui_status, ui_status_buffer, pc>>
         [] key.kind = "Backspace" ->
               /\ dice_string' = SubSeq(dice_string, 1, Len(dice_string) - 1)
               /\ UNCHANGED <<game_vars, ui_status, ui_status_buffer, pc>>
         [] key.kind = "Enter" ->
               IF dice_string = <<>>
               THEN UNCHANGED <<game_vars, ui_vars, pc>>
               ELSE GameData_dice_roll_enter
         [] OTHER -> LeaveOrIgnore(key)

\* GameData::skip
GameData_skip(key) ==
    /\ ui_status = "Skip"
    /\ IF key.kind = "Enter"
       THEN IF current_player \notin DOMAIN player_status_table
            THEN /\ pc' = "aborted"
                 /\ result' = NotFoundPlayer(current_player)
                 /\ UNCHANGED <<num_goal_player, player_status_table,
                                current_player, dice, ui_vars>>
            ELSE LET t == [player_status_table EXCEPT
                              ![current_player] = sub_num_skip(@, 1)]
                     c == change_player(player_order, current_player, t)
                 IN  /\ player_status_table' = c.tbl
                     /\ result' = c.res
                     /\ current_player' = c.current_player
                     /\ IF c.ui_status = "Aborted"
                        THEN pc' = "aborted" /\ UNCHANGED <<ui_status, ui_status_buffer>>
                        ELSE /\ pc' = pc
                             /\ ui_status' = c.ui_status
                             /\ ui_status_buffer' = c.ui_status
                     /\ UNCHANGED <<num_goal_player, dice, dice_string>>
       ELSE LeaveOrIgnore(key)
\* GameData::dice_result
GameData_dice_result(key) ==
    /\ ui_status = "DiceResult"
    /\ IF key.kind = "Enter"
       THEN IF current_player \notin DOMAIN player_status_table
            THEN /\ pc' = "aborted"
                 /\ result' = NotFoundPlayer(current_player)
                 /\ UNCHANGED <<num_goal_player, player_status_table,
                                current_player, dice, ui_vars>>
            ELSE /\ IF player_status_table[current_player].num_skip = 0
                    THEN /\ ui_status' = "DiceRoll"
                         /\ ui_status_buffer' = "DiceRoll"
                         /\ dice_string' = <<>>
                    ELSE /\ ui_status' = "Skip"
                         /\ ui_status_buffer' = "Skip"
                         /\ dice_string' = dice_string
                 /\ UNCHANGED <<game_vars, pc>>
       ELSE LeaveOrIgnore(key)

\* GameData::game_finished
GameData_game_finished(key) ==
    /\ ui_status = "GameFinished"
    /\ IF key.kind = "Enter"
       THEN UNCHANGED <<game_vars, ui_vars, pc>>
       ELSE LeaveOrIgnore(key)

\* GameData::quit_menu
GameData_quit_menu(key) ==
    /\ ui_status = "QuitMenu"
    /\ pc' = IF key.kind = "Y" THEN "quit" ELSE pc
    /\ ui_status' = IF key.kind \in {"Y", "Ctrl_l"} THEN ui_status
                    ELSE ui_status_buffer
    /\ UNCHANGED <<game_vars, ui_status_buffer, dice_string>>

\* GameData::transition, called with every key read until quit_menu
\* answers true or a handler returns an error
transition(key) ==
    /\ pc = "ui"
    /\ \/ GameData_title_menu(key)
       \/ GameData_dice_roll(key)
       \/ GameData_skip(key)
       \/ GameData_dice_result(key)
       \/ GameData_quit_menu(key)
       \/ GameData_game_finished(key)
    /\ UNCHANGED fixed_vars

UiNext == \E key \in Keys : transition(key)

SpecUi == UiGameInit /\ [][UiNext]_vars

\* C15: when Enter is pressed in DiceRoll with a dice value greater than
\* dice_max, the interface moves to DiceResult while the current player,
\* every player's status and the goal counter stay as they were and
\* next_player is not called; the Enter after that prompts the same player
\* to roll again
C15_OutOfRangeDiceReprompts ==
    [][/\ (ui_status = "DiceRoll" /\ DecimalValue(dice_string) > dice_max =>
              /\ pc' = "ui"
              /\ <<player_status_table', num_goal_player', current_player'>>
                    = <<player_status_table, num_goal_player, current_player>>
              /\ ui_status' \in {"DiceRoll", "DiceResult", "QuitMenu", "TitleMenu"}
              /\ ui_status' = "DiceResult" => result'.kind = "OutOfRangeDice")
       /\ (ui_status = "DiceResult" /\ result.kind = "OutOfRangeDice" =>
              /\ pc' = "ui"
              /\ current_player' = current_player
              /\ ui_status' \in {"DiceRoll", "DiceResult", "QuitMenu", "TitleMenu"})
      ]_vars

\* C16: in every run of the interface a player's status changes only
\* inside World::dice_roll or next_player: a step that changes the table is
\* the Enter of DiceRoll, which calls both, or leaves the table as the
\* next_player call of change_player alone would
C16_StatusChangesOnlyInEngineCalls ==
    [][player_status_table' # player_status_table =>
          \/ /\ ui_status = "DiceRoll"
             /\ LET r == dice_roll(area_list, dice_max, num_goal_player,
                                   DecimalValue(dice_string), current_player,
                                   player_order, player_status_table)
                IN  player_status_table'
                        = IF IsOk(r.res)
                          THEN next_player(player_order, current_player, r.tbl).tbl
                          ELSE r.tbl
          \/ /\ ui_status = "Skip"
             /\ player_status_table'
                    = next_player(player_order, current_player,
                                  player_status_table).tbl
      ]_vars

\* ============================================= reading the configuration
\* a parsed file, nothing read from it yet
LoadInit ==
    /\ input \in Files
    /\ area_list = <<>>
    /\ dice_max = MaxDice
    /\ num_goal_player = 0
    /\ player_order = <<>>
    /\ player_status_table = <<>>
    /\ current_player = ""
    /\ pc = "load"
    /\ dice = 0
    /\ result = [kind |-> "Start", player |-> "", value |-> 0]
    /\ turn_log = <<>>
    /\ UiInit

\* read_player_list_from_file
ReadPlayerList ==
    /\ pc = "load"
    /\ input.file = "player_list"
    /\ LET r == read_player_list(input.player)
       IN  /\ player_order' = r.order
           /\ player_status_table' = r.tbl
           /\ result' = r.res
    /\ pc' = "player_list_read"
    /\ UNCHANGED <<area_list, dice_max, num_goal_player, current_player, dice,
                   turn_log, ui_vars, input>>

\* read_world_from_file
ReadWorld ==
    /\ pc = "load"
    /\ input.file = "world"
    /\ LET r == read_world(input.area)
       IN  /\ area_list' = r.area_list
           /\ result' = r.res
    /\ pc' = "world_read"
    /\ UNCHANGED <<dice_max, num_goal_player, player_order, player_status_table,
                   current_player, dice, turn_log, ui_vars, input>>

LoadNext == ReadPlayerList \/ ReadWorld

SpecLoad == LoadInit /\ [][LoadNext]_vars

\* the names of the file that occur more than once
RepeatedNames ==
    {input.player[i] : i \in {i \in 1..Len(input.player) :
        \E j \in 1..Len(input.player) : j # i /\ input.player[j] = input.player[i]}}

\* C17: roster construction: pairwise distinct names give player_order
\* equal to the names as listed and a table whose keys are exactly those
\* names, each at position 0 with no pending skip and no arrival rank; a
\* repeated name gives DuplicatePlayer carrying that name
C17_RosterConstruction ==
    pc = "player_list_read" =>
        IF RepeatedNames = {}
        THEN /\ IsOk(result)
             /\ player_order = input.player
             /\ DOMAIN player_status_table
                    = {input.player[i] : i \in 1..Len(input.player)}
             /\ \A p \in DOMAIN player_status_table :
                   player_status_table[p]
                       = [position |-> 0, num_skip |-> 0, order_of_arrival |-> None]
        ELSE /\ result.kind = "DuplicatePlayer"
             /\ result.player \in RepeatedNames

\* a roster of three distinct names was built, or a file with two
\* different repeated names was refused
C17_Witness ==
    /\ pc = "player_list_read"
    /\ \/ IsOk(result) /\ Len(player_order) = 3
       \/ result.kind = "DuplicatePlayer" /\ Cardinality(RepeatedNames) = 2

\* C18: every world that read_world_from_file builds has as many areas as
\* were configured plus two, at least two, and its first (start) and last
\* (goal) areas each carry exactly one NoEffect, for any number of
\* configured areas, none included
C18_StartAndGoalAreNoEffect ==
    pc = "world_read" /\ IsOk(result) =>
        /\ Len(area_list) = Len(input.area) + 2
        /\ Len(area_list) >= 2
        /\ area_list[1].effect_list = <<Effect("NoEffect", 0)>>
        /\ area_list[Len(area_list)].effect_list = <<Effect("NoEffect", 0)>>

\* a world read from a file with no configured area
C18_Witness ==
    /\ pc = "world_read"
    /\ IsOk(result)
    /\ input.area = <<>>
    /\ Len(area_list) = 2

\* C19: every area of a loaded board holds a non-empty effect list: an
\* area whose effect key is absent or whose effect list is empty gets a
\* single NoEffect
C19_EffectListsAreNotEmpty ==
    pc = "world_read" /\ IsOk(result) =>
        \A i \in 1..Len(area_list) :
            /\ area_list[i].effect_list # <<>>
            /\ (i \in 2..(Len(area_list) - 1)
                  /\ input.area[i - 1].effect \in {None, Some(<<>>)})
               => area_list[i].effect_list = <<Effect("NoEffect", 0)>>

\* ================================================ PlayerStatus movement
\* a player at position input.position, and the distance dice of the
\* calls to come
MoveInit ==
    /\ input \in {[position |-> p] : p \in EdgeValues}
    /\ dice \in EdgeValues
    /\ player_status_table = [p \in {"A"} |-> set_position(PlayerStatus_default,
                                                         input.position)]
    /\ player_order = <<"A">>
    /\ current_player = "A"
    /\ area_list = <<>>
    /\ dice_max = MaxDice
    /\ num_goal_player = 0
    /\ pc = "placed"
    /\ result = [kind |-> "Start", player |-> "", value |-> 0]
    /\ turn_log = <<>>
    /\ UiInit

\* PlayerStatus::go_forward(dice)
GoForward ==
    /\ pc = "placed"
    /\ player_status_table' =
          [player_status_table EXCEPT !["A"] = go_forward(@, dice)]
    /\ pc' = "forward"
    /\ UNCHANGED <<area_list, dice_max, num_goal_player, player_order,
                   current_player, dice, result, turn_log, ui_vars, input>>

\* PlayerStatus::go_backward(dice), first or after go_forward(dice)
GoBackward ==
    /\ pc \in {"placed", "forward"}
    /\ player_status_table' =
          [player_status_table EXCEPT !["A"] = go_backward(@, dice)]
    /\ pc' = IF pc = "forward" THEN "forward_backward" ELSE "backward"
    /\ UNCHANGED <<area_list, dice_max, num_goal_player, player_order,
                   current_player, dice, result, turn_log, ui_vars, input>>

MoveNext == GoForward \/ GoBackward

SpecMove == MoveInit /\ [][MoveNext]_vars

\* go_backward never gives a position below 0 and go_forward never one
\* past the largest integer
PositionInRange ==
    /\ player_status_table["A"].position >= 0
    /\ player_status_table["A"].position <= USIZE_MAX

\* C20: for every n and every starting position p >= n of the integer
\* range, go_forward(n) followed by go_backward(n) gives position p again;
\* go_backward never gives a result below 0 and go_forward never wraps past
\* the largest integer
C20_ForwardBackwardRestores ==
    /\ PositionInRange
    /\ pc = "forward_backward" /\ input.position >= dice
          => player_status_table["A"].position = input.position

\* C20 as amended: the round trip restores p when p + n does not pass the
\* largest integer (whether or not p >= n): beyond it go_forward stops at
\* the largest integer and go_backward(n) ends at that integer minus n
C20_ForwardBackwardRestoresUnsaturated ==
    /\ PositionInRange
    /\ pc = "forward_backward" =>
          player_status_table["A"].position
              = IF input.position <= USIZE_MAX - dice
                THEN input.position
                ELSE USIZE_MAX - dice

\* a round trip over a distance n > 0 from a position p >= n, restored
C20_Witness ==
    /\ pc = "forward_backward"
    /\ dice > 0
    /\ input.position >= dice
    /\ player_status_table["A"].position = input.position

\* ============================================== next_player on any table
\* the statuses of a table handed to next_player: any pending skips, an
\* arrival rank or none
ScanStatuses ==
    {[position |-> 0, num_skip |-> k, order_of_arrival |-> r] :
        k \in 0..MaxNum, r \in {None, Some(1)}}

\* tables that miss at most one of the names
ScanTables ==
    UNION {[K -> ScanStatuses] :
              K \in {S \in SUBSET PlayerNames : Cardinality(S) >= Len(Players) - 1}}

\* the arguments of the next_player call to come
ScanInit ==
    /\ area_list = AreaList(<<>>)
    /\ dice_max = MaxDice
    /\ num_goal_player = 0
    /\ player_order \in CallRosters
    /\ player_status_table \in ScanTables
    /\ current_player \in PlayerNames
    /\ pc = "call"
    /\ dice = 0
    /\ result = [kind |-> "Start", player |-> "", value |-> 0]
    /\ turn_log = <<>>
    /\ UiInit
    /\ input = NoInput

SpecScan == ScanInit /\ [][CallNextPlayer]_vars

RosterNames == {player_order[i] : i \in 1..Len(player_order)}

\* the roster names without an entry in the table
MissingNames == RosterNames \ DOMAIN player_status_table

\* the positions of the scan from current_player at which it ends before
\* its last candidate: a name without an entry, or a player that has not
\* arrived and has no pending skip
ScanStops ==
    LET scan == ScanOrder(current_player)
    IN  {k \in 1..Len(scan) :
            \/ scan[k] \notin DOMAIN player_status_table
            \/ Eligible(scan[k])}

FirstScanStop == CHOOSE k \in ScanStops : \A j \in ScanStops : k <= j

\* C21: next_player fails with NotFoundPlayer(name) whenever a player
\* named in player_order has no entry in the status table (looked at for
\* a current_player of the roster, where the call returns)
C21_MissingPlayerAlwaysFails ==
    [][pc = "call" /\ pc' = "next_player_returned" /\ MissingNames # {}
       /\ current_player \in RosterNames =>
          /\ result'.kind = "NotFoundPlayer"
          /\ result'.player \in MissingNames
      ]_vars

\* C21 as amended: for a current_player of the roster, next_player fails
\* with NotFoundPlayer(name) exactly when its scan (the roster after
\* current_player, wrapping, current_player last) comes to name, which has
\* no entry, before it comes to a player that has not arrived and has no
\* pending skip; a missing name the scan does not come to goes unnoticed
C21_MissingPlayerFailsWhenScanned ==
    [][pc = "call" /\ pc' = "next_player_returned"
       /\ current_player \in RosterNames =>
          IF /\ ScanStops # {}
             /\ ScanOrder(current_player)[FirstScanStop]
                   \notin DOMAIN player_status_table
          THEN result' = NotFoundPlayer(ScanOrder(current_player)[FirstScanStop])
          ELSE result'.kind \in {"Some", "None"}
      ]_vars

\* a scan that counted a skip down and then came to a missing name
C21_Witness ==
    /\ pc = "next_player_returned"
    /\ result.kind = "NotFoundPlayer"
    /\ result.player # current_player
    /\ Len(player_order) = 3
    /\ \E p \in DOMAIN player_status_table :
          /\ player_status_table[p].order_of_arrival = None
          /\ player_status_table[p].num_skip = MaxNum - 1

\* the candidates the scan passed before it ended at result r
ScannedBefore(r) ==
    LET scan == ScanOrder(current_player)
        last == IF r.kind = "Some"
                THEN (CHOOSE k \in 1..Len(scan) : scan[k] = r.player) - 1
                ELSE Len(scan)
    IN  {scan[k] : k \in 1..last}

\* C27: a next_player call that returns player R, or None, lowers the
\* pending skips by exactly 1 for each player scanned before R (each roster
\* player when it returns None) that has not arrived and has pending
\* skips, and changes nothing else: arrived players, players after R in
\* the scan, R itself, every position and every arrival rank stay
C27_ScanOnlyCountsSkipsDown ==
    [][pc = "call" /\ pc' = "next_player_returned"
       /\ result'.kind \in {"Some", "None"} =>
          /\ DOMAIN player_status_table' = DOMAIN player_status_table
          /\ \A p \in DOMAIN player_status_table :
                player_status_table'[p] =
                    IF /\ p \in ScannedBefore(result')
                       /\ player_status_table[p].order_of_arrival = None
                       /\ player_status_table[p].num_skip > 0
                    THEN [player_status_table[p] EXCEPT !.num_skip = @ - 1]
                    ELSE player_status_table[p]
      ]_vars

\* a scan that passed an arrived player holding a pending skip, counted
\* another player's skip down and returned a third player
C27_Witness ==
    /\ pc = "next_player_returned"
    /\ result.kind = "Some"
    /\ result.player # current_player
    /\ \E p, q \in DOMAIN player_status_table :
          /\ {p, q} \cap {result.player} = {}
          /\ player_status_table[p].order_of_arrival # None
          /\ player_status_table[p].num_skip = MaxNum
          /\ player_status_table[q].order_of_arrival = None
          /\ player_status_table[q].num_skip = MaxNum - 1
          /\ \E i, j \in 1..Len(player_order) :
                /\ player_order[i] = current_player /\ player_order[j] = q
                /\ i < j

\* ============================================ parsing an effect element
\* the effect names written in the elements, one of them unknown
ElementNames ==
    {"NoEffect", "GoToStart", "SkipSelf", "PushSelf", "PushOthersAll",
     "PullSelf", "PullOthersAll", "Jump"}

\* the keys and values written in the parameters: 256 is beyond u8
ParameterKeys == {<<"times">>, <<"num">>, <<"turns">>, <<>>}

ParameterValues ==
    {<<"3">>, <<"2", "5", "5">>, <<"2", "5", "6">>, <<>>, <<"x">>, <<"+", "3">>}

\* the pieces between commas: key=value, nothing, a key alone, and a
\* piece with two '='
ParameterPieces ==
    {k \o <<"=">> \o v : k \in ParameterKeys, v \in ParameterValues}
    \cup {<<>>, <<"times">>}
    \cup {k \o <<"=", "3", "=", "3">> : k \in {<<"times">>, <<"num">>}}

\* the parameters written after the colon: one piece or two
ParameterBlobs ==
    ParameterPieces
    \cup {p \o <<",">> \o q : p \in ParameterPieces, q \in ParameterPieces}

\* the elements: name:parameters, the same with whitespace around its
\* parts, and elements with no colon or with two
Elements ==
    {[shape |-> "name:parameters", name |-> n, blob |-> b,
      text |-> <<n, ":">> \o b] : n \in ElementNames, b \in ParameterBlobs}
    \cup {[shape |-> "name:parameters", name |-> n, blob |-> b,
           text |-> <<" ", n, " ", ":", " ">> \o b \o <<" ">>] :
              n \in ElementNames, b \in ParameterPieces}
    \cup {[shape |-> "other", name |-> n, blob |-> <<>>, text |-> <<n>>] :
              n \in ElementNames}
    \cup {[shape |-> "other", name |-> n, blob |-> <<>>,
           text |-> <<n, ":", ":">>] : n \in ElementNames}

\* an element, not parsed yet
ParseInit ==
    /\ input \in Elements
    /\ area_list = <<>>
    /\ dice_max = MaxDice
    /\ num_goal_player = 0
    /\ player_order = <<>>
    /\ player_status_table = <<>>
    /\ current_player = ""
    /\ pc = "parse"
    /\ dice = 0
    /\ result = [kind |-> "Start", player |-> "", value |-> 0]
    /\ turn_log = <<>>
    /\ UiInit

\* <Box<dyn AreaEffect> as FromStr>::from_str
ParseElement ==
    /\ pc = "parse"
    /\ result' = AreaEffect_from_str(input.text)
    /\ pc' = "parsed"
    /\ UNCHANGED <<area_list, dice_max, num_goal_player, player_order,
                   player_status_table, current_player, dice, turn_log,
                   ui_vars, input>>

SpecParse == ParseInit /\ [][ParseElement]_vars

\* C22: parsing `NoEffect:` or `GoToStart:` succeeds and yields that
\* effect when nothing follows the colon, and fails when something does
C22_ZeroParameterEffectsParse ==
    pc = "parsed" /\ input.shape = "name:parameters"
    /\ input.name \in {"NoEffect", "GoToStart"} =>
        IF input.blob = <<>>
        THEN result.ok /\ result.effect = Effect(input.name, 0)
        ELSE ~result.ok

\* how often character c occurs in string s
Count(s, c) == Cardinality({i \in 1..Len(s) : s[i] = c})

\* the parameters are exactly one key=value pair
OnePair(b) == Count(b, ",") = 0 /\ Count(b, "=") = 1

KeyOf(b) == SubSeq(b, 1, (CHOOSE i \in 1..Len(b) : b[i] = "=") - 1)

ValueOf(b) == SubSeq(b, (CHOOSE i \in 1..Len(b) : b[i] = "=") + 1, Len(b))

ExpectedKey(n) == IF n = "SkipSelf" THEN <<"times">> ELSE <<"num">>

\* u8 for SkipSelf, usize for the others
ExpectedMax(n) == IF n = "SkipSelf" THEN U8_MAX ELSE USIZE_MAX

\* C23: for SkipSelf (key `times`) and PushSelf, PushOthersAll, PullSelf,
\* PullOthersAll (key `num`) the parameters are accepted if and only if
\* they are exactly one key=value pair whose key is the expected one and
\* whose value parses as the expected unsigned type, and the effect then
\* carries that value; a repeated key and any other key are rejected
C23_OneExpectedPairIsAccepted ==
    pc = "parsed" /\ input.shape = "name:parameters"
    /\ input.name \in {"SkipSelf", "PushSelf", "PushOthersAll", "PullSelf",
                       "PullOthersAll"} =>
        LET accepted ==
                /\ OnePair(input.blob)
                /\ KeyOf(input.blob) = ExpectedKey(input.name)
                /\ parse_unsigned(ValueOf(input.blob), ExpectedMax(input.name)).ok
        IN  /\ result.ok <=> accepted
            /\ accepted =>
                 result.effect =
                     Effect(input.name,
                            parse_unsigned(ValueOf(input.blob),
                                           ExpectedMax(input.name)).value)

\* `PushSelf: num=256` was accepted with its value
C23_Witness ==
    /\ pc = "parsed"
    /\ input.name = "PushSelf"
    /\ result.ok
    /\ result.effect = Effect("PushSelf", 256)

\* ================================================= the turn loop, again
\* C24: in the turn loop, where dice_roll is called for the first roster
\* player and then for the player the preceding next_player returned,
\* dice_roll never returns OutOfRangePosition
C24_NoOutOfRangePosition == result.kind # "OutOfRangePosition"

\* on the board of start and goal a roll of 2 went past the goal and
\* dice_roll returned Ok
C24_Witness ==
    /\ Len(area_list) = 2
    /\ pc = "next_player"
    /\ dice = 2
    /\ IsOk(result)
    /\ player_status_table[current_player].position = 1

\* the current player is not arrived and dice d takes it to the goal
\* square or past it
ReachesGoal(d) ==
    /\ pc = "dice_roll"
    /\ ~dice_out_of_range(dice_max, d)
    /\ player_status_table[current_player].order_of_arrival = None
    /\ player_status_table[current_player].position + d >= last_area_index

\* C25: when a valid dice roll takes the non-arrived current player to or
\* past the last index, after dice_roll that player is at the last index
\* with an arrival rank; only the goal square's no-op ran, so the player's
\* pending skips are as before, the goal square's description is returned
\* and no other player's status changed
C25_ArrivalChangesOnlyTheArriver ==
    [][ReachesGoal(dice') =>
        /\ player_status_table'[current_player].position = last_area_index
        /\ player_status_table'[current_player].order_of_arrival # None
        /\ player_status_table'[current_player].num_skip
              = player_status_table[current_player].num_skip
        /\ result' = Ok(last_area_index)
        /\ \A p \in DOMAIN player_status_table \ {current_player} :
              player_status_table'[p] = player_status_table[p]]_vars

\* a roll of 2 from the start took the current player past the goal of a
\* three-square board while another player stood on the middle square
C25_Witness ==
    /\ Len(area_list) = 3
    /\ pc = "next_player"
    /\ dice = 2
    /\ result = Ok(2)
    /\ player_status_table[current_player].order_of_arrival # None
    /\ \E p \in DOMAIN player_status_table :
          /\ p # current_player
          /\ player_status_table[p].position = 1
          /\ player_status_table[p].order_of_arrival = None

\* what a goal-check pass with the counter at n leaves of table t
GoalChecked(t, n) ==
    [p \in DOMAIN t |->
        IF t[p].order_of_arrival = None /\ t[p].position >= last_area_index
        THEN [t[p] EXCEPT !.position = last_area_index,
                          !.order_of_arrival = Some(n + 1)]
        ELSE t[p]]

\* the table after the dice move of the current player and the first
\* goal check
AfterDiceMove(d) ==
    GoalChecked([player_status_table EXCEPT ![current_player].position = @ + d],
                num_goal_player)

\* C26: a successful dice_roll executes the effects of exactly one area,
\* once: the area at the current player's position right after the dice
\* move and the first goal check. The table it leaves is the one those
\* effects, run once on the table after the first goal check, and the
\* second goal check leave: the effects of a square reached through
\* PushSelf, PullSelf or GoToStart are not executed
C26_OneAreaExecutedOnce ==
    [][(pc = "dice_roll" /\ IsOk(result')) =>
        LET landed == AfterDiceMove(dice')[current_player].position
            ranked == Cardinality({p \in DOMAIN player_status_table :
                         AfterDiceMove(dice')[p].order_of_arrival # None})
        IN  player_status_table'
              = GoalChecked(TableAfter(area_list[landed + 1].effect_list,
                                       AfterDiceMove(dice')),
                            ranked)]_vars

\* the PushSelf square moved the player to the SkipSelf square, whose
\* effect did not run
C26_Witness ==
    /\ area_list = ChainGame.area_list
    /\ pc = "next_player"
    /\ result = Ok(1)
    /\ player_status_table[current_player].position = 2
    /\ player_status_table[current_player].num_skip = 0

\* C29: after every dice_roll of a game started with no arrived players
\* num_goal_player is the number of players whose arrival rank is set,
\* and it never decreases
C29_GoalCounterCountsArrivals ==
    [][/\ num_goal_player' = Cardinality({p \in DOMAIN player_status_table' :
                                player_status_table'[p].order_of_arrival # None})
       /\ num_goal_player' >= num_goal_player]_vars

\* two players arrived in the same goal-check pass, both counted
C29_Witness ==
    /\ num_goal_player >= 2
    /\ \E p, q \in Arrived : p # q /\ Rank(p) = Rank(q)

\* ===================================== effects on the other players
\* a status at the given position: B has a pending skip, C has arrived
EffectStatus(p, position) ==
    [position |-> position,
     num_skip |-> IF p = "B" THEN 1 ELSE 0,
     order_of_arrival |-> IF p = "C" THEN Some(1) ELSE None]

\* tables that miss at most one of the names, with positions next to
\* either end of the usize range
EffectTables ==
    UNION {{[p \in K |-> EffectStatus(p, f[p])] : f \in [K -> EdgeValues]} :
              K \in {S \in SUBSET PlayerNames : Cardinality(S) >= Len(Players) - 1}}

OthersAllEffects ==
    {Effect(name, num) : name \in OthersEffects, num \in EdgeValues \ {0}}

\* an area with one PushOthersAll or PullOthersAll, about to be executed
EffectInit ==
    /\ area_list \in {AreaList(<<Area(<<e>>)>>) : e \in OthersAllEffects}
    /\ dice_max = MaxDice
    /\ num_goal_player = 0
    /\ player_order = Players
    /\ player_status_table \in EffectTables
    /\ current_player \in PlayerNames
    /\ pc = "call"
    /\ dice = 0
    /\ result = [kind |-> "Start", player |-> "", value |-> 0]
    /\ turn_log = <<>>
    /\ UiInit
    /\ input = NoInput

SpecEffect == EffectInit /\ [][CallExecute]_vars

\* the effect of the executed area
TheEffect == area_list[2].effect_list[1]

\* the other roster players
Others == {player_order[i] : i \in 1..Len(player_order)} \ {current_player}

MovedBy(e, position) ==
    IF e.name = "PushOthersAll"
    THEN IF e.num > USIZE_MAX - position THEN USIZE_MAX ELSE position + e.num
    ELSE IF position > e.num THEN position - e.num ELSE 0

MaxRank == 10

\* a status with or without a rank, and the rank to set
RankInit ==
    /\ input \in {[order_of_arrival |-> r] : r \in 0..MaxRank}
    /\ player_status_table \in
          {[p \in {"A"} |-> [PlayerStatus_default EXCEPT !.order_of_arrival = o]] :
              o \in {None} \cup {Some(q) : q \in 0..MaxRank}}
    /\ player_order = <<"A">>
    /\ current_player = "A"
    /\ area_list = <<>>
    /\ dice_max = MaxDice
    /\ num_goal_player = 0
    /\ pc = "placed"
    /\ dice = 0
    /\ result = [kind |-> "Start", player |-> "", value |-> 0]
    /\ turn_log = <<>>
    /\ UiInit

\* PlayerStatus::set_order_of_arrival(order_of_arrival)
SetOrderOfArrival ==
    /\ pc = "placed"
    /\ player_status_table' =
          [player_status_table EXCEPT
              !["A"] = set_order_of_arrival(@, input.order_of_arrival)]
    /\ pc' = "ranked"
    /\ UNCHANGED <<area_list, dice_max, num_goal_player, player_order,
                   current_player, dice, result, turn_log, ui_vars, input>>

SpecRank == RankInit /\ [][SetOrderOfArrival]_vars

\* C30: set_order_of_arrival(r) sets the arrival rank if and only if it
\* is None: on a status whose rank is Some(q) it leaves the rank Some(q)
C30_RankIsSetOnlyOnce ==
    [][pc = "placed" =>
        player_status_table'["A"].order_of_arrival
           = IF player_status_table["A"].order_of_arrival = None
             THEN Some(input.order_of_arrival)
             ELSE player_status_table["A"].order_of_arrival]_vars

\* ========================================= Enter on a typed dice value
\* the digit strings typed before Enter: no leading '0' (the handler does
\* not take a '0' first); one or two digits, and long ones at usize::MAX
\* and beyond it
DiceStrings ==
    {<<a>> : a \in 1..9} \cup {<<a, b>> : a \in 1..9, b \in 0..9}
    \cup {<<2, 1, 4, 7, 4, 8, 3, 6, 4, 7>>, <<2, 1, 4, 7, 4, 8, 3, 6, 4, 8>>,
          <<9, 9, 9, 9, 9, 9, 9, 9, 9, 9>>,
          <<1, 0, 0, 0, 0, 0, 0, 0, 0, 0, 0>>}

\* the interface in DiceRoll for the first player, digits typed
DiceInit ==
    \E g \in UiGames :
        /\ area_list = g.area_list
        /\ dice_max = g.dice_max
        /\ num_goal_player = 0
        /\ player_order = g.player_order
        /\ player_status_table = StatusTable(g.player_order)
        /\ current_player = g.player_order[1]
        /\ pc = "ui"
        /\ dice = 0
        /\ result = [kind |-> "Start", player |-> "", value |-> 0]
        /\ turn_log = <<>>
        /\ ui_status = "DiceRoll"
        /\ ui_status_buffer = "DiceRoll"
        /\ dice_string \in DiceStrings
        /\ input = NoInput

\* Enter in DiceRoll
DiceRollEnter ==
    /\ pc = "ui"
    /\ GameData_dice_roll(Key("Enter", 0))
    /\ UNCHANGED fixed_vars

\* Enter in DiceResult
DiceResultEnter ==
    /\ pc = "ui"
    /\ GameData_dice_result(Key("Enter", 0))
    /\ UNCHANGED fixed_vars

DiceNext == DiceRollEnter \/ DiceResultEnter

SpecDice == DiceInit /\ [][DiceNext]_vars

\* the typed value is not one of 1..dice_max
OutsideDice(s) == ~parse_usize(s).ok \/ parse_usize(s).value > dice_max

\* C31: in DiceRoll, Enter with a digit string that is not empty never
\* aborts the session: a value outside 1..dice_max, however many digits
\* it has, is reported as out of range (DiceResult), nothing of the game
\* changes, and the Enter after that prompts the same player again
C31_LongDiceValueIsOutOfRange ==
    [][/\ (ui_status = "DiceRoll" /\ dice_string # <<>>) =>
             /\ pc' = "ui"
             /\ OutsideDice(dice_string) =>
                   /\ ui_status' = "DiceResult"
                   /\ result'.kind = "OutOfRangeDice"
                   /\ <<player_status_table', num_goal_player', current_player'>>
                         = <<player_status_table, num_goal_player, current_player>>
       /\ (ui_status = "DiceResult" /\ result.kind = "OutOfRangeDice") =>
             /\ pc' = "ui"
             /\ ui_status' = "DiceRoll"
             /\ current_player' = current_player]_vars

\* ================================================= the pending skips
\* the pending skips and the times of a SkipSelf next to either end of
\* the u8 range
SkipValues == {e : e \in 0..MaxEdge} \cup {U8_MAX - e : e \in 0..MaxEdge}

\* how many calls a sequence of SkipSelf effects and next_player calls has
MaxCalls == 3

\* two players with pending skips, one of them current
SkipInit ==
    /\ player_order = <<"A", "B">>
    /\ player_status_table \in
          {[p \in {"A", "B"} |->
               [PlayerStatus_default EXCEPT !.num_skip = IF p = "A" THEN a ELSE b]] :
              a \in SkipValues, b \in SkipValues}
    /\ current_player \in {"A", "B"}
    /\ input = [times |-> 0, before |-> player_status_table, calls |-> 0]
    /\ area_list = <<>>
    /\ dice_max = MaxDice
    /\ num_goal_player = 0
    /\ pc = "start"
    /\ dice = 0
    /\ result = [kind |-> "Start", player |-> "", value |-> 0]
    /\ turn_log = <<>>
    /\ UiInit

\* SkipSelf::execute for the current player; input keeps the times, the
\* table the call started from and the number of calls made
SkipSelfExecute(times) ==
    /\ input.calls < MaxCalls
    /\ LET r == SkipSelf_execute(Effect("SkipSelf", times), current_player,
                                 player_order, player_status_table)
       IN  /\ player_status_table' = r.tbl
           /\ result' = r.res
    /\ input' = [times |-> times, before |-> player_status_table,
                 calls |-> input.calls + 1]
    /\ pc' = "executed"
    /\ UNCHANGED <<area_list, dice_max, num_goal_player, player_order,
                   current_player, dice, turn_log, ui_vars>>

\* next_player, the player it returns becoming the current one
SkipNextPlayer ==
    /\ input.calls < MaxCalls
    /\ LET r == next_player(player_order, current_player, player_status_table)
       IN  /\ player_status_table' = r.tbl
           /\ result' = r.res
           /\ current_player' = IF r.res.kind = "Some" THEN r.res.player
                                ELSE current_player
    /\ input' = [times |-> 0, before |-> player_status_table,
                 calls |-> input.calls + 1]
    /\ pc' = "scanned"
    /\ UNCHANGED <<area_list, dice_max, num_goal_player, player_order, dice,
                   turn_log, ui_vars>>

SkipNext ==
    \/ \E times \in SkipValues : SkipSelfExecute(times)
    \/ SkipNextPlayer

SpecSkip == SkipInit /\ [][SkipNext]_vars

\* C32: pending skips stay within 0..255 through any sequence of SkipSelf
\* effects and next_player calls: SkipSelf adds its times and stops at
\* 255 without wrapping, so the count never gets smaller by it; next_player
\* takes at most 1 off and stops at 0, so the count never gets larger by it
C32_PendingSkipsNeverWrap ==
    [][\A p \in DOMAIN player_status_table :
          LET old == player_status_table[p].num_skip
              new == player_status_table'[p].num_skip
          IN  /\ new >= 0 /\ new <= U8_MAX
              /\ pc' = "executed" =>
                    /\ new >= old
                    /\ p = current_player =>
                          new = IF input'.times > U8_MAX - old THEN U8_MAX
                                ELSE old + input'.times
              /\ pc' = "scanned" =>
                    /\ new <= old
                    /\ new >= old - 1
                    /\ old = 0 => new = 0]_vars

\* a SkipSelf whose times passed 255 left the count at 255
C32_Witness ==
    /\ pc = "executed"
    /\ player_status_table[current_player].num_skip = U8_MAX
    /\ input.before[current_player].num_skip = U8_MAX - 1
    /\ input.times = 3

\* ============================================ the keys, one at a time
\* GameData::transition, the key it was called with kept in input
PressKey(key) ==
    /\ pc = "ui"
    /\ \/ GameData_title_menu(key)
       \/ GameData_dice_roll(key)
       \/ GameData_skip(key)
       \/ GameData_dice_result(key)
       \/ GameData_quit_menu(key)
       \/ GameData_game_finished(key)
    /\ input' = key
    /\ UNCHANGED <<area_list, dice_max, player_order, turn_log>>

KeyNext == \E key \in Keys : PressKey(key)

SpecKeys == UiGameInit /\ [][KeyNext]_vars

\* the game is over for the interface: GameFinished, or a menu opened
\* from GameFinished
Finished ==
    \/ ui_status = "GameFinished"
    \/ ui_status \in {"QuitMenu", "TitleMenu"} /\ ui_status_buffer = "GameFinished"

\* C33: once GameFinished is reached no key changes a player's position,
\* pending skips or arrival rank, or the current player; the quit and
\* title menus opened from GameFinished lead back to GameFinished or to
\* quitting only
C33_FinishedGameStaysFinished ==
    [][Finished =>
        /\ player_status_table' = player_status_table
        /\ current_player' = current_player
        /\ Finished' \/ pc' = "quit"]_vars

\* the states the title menu is opened from with Ctrl-t
GameStates == {"DiceRoll", "Skip", "DiceResult", "GameFinished"}

\* C34: when the title menu was opened with Ctrl-t from DiceRoll, Skip,
\* DiceResult or GameFinished, Enter in the title menu returns the
\* interface to the state saved in ui_status_buffer
C34_TitleMenuReturnsToSavedState ==
    [][(ui_status = "TitleMenu" /\ ui_status_buffer \in GameStates
        /\ input'.kind = "Enter")
          => ui_status' = ui_status_buffer]_vars

\* C35: in every run started from GameData::try_new the current player
\* has no pending skip when DiceResult handles Enter, so the state Skip is
\* never entered
C35_SkipIsNeverEntered ==
    /\ ui_status # "Skip"
    /\ ui_status = "DiceResult" =>
          player_status_table[current_player].num_skip = 0

\* ============================================== the order of the ranks
\* the players the first goal-check pass of dice_roll(d) ranks: the current
\* player when the dice takes it to the goal square or past it
FirstPassArrivals(d) ==
    IF /\ ~dice_out_of_range(dice_max, d)
       /\ player_status_table[current_player].order_of_arrival = None
       /\ player_status_table[current_player].position + d >= last_area_index
    THEN {current_player} ELSE {}

\* C36: arrival ranks respect arrival order: a player ranked in an earlier
\* goal-check pass, in an earlier dice_roll or in the first pass of this
\* one, has a smaller rank than a player ranked in a later pass
C36_RanksFollowArrivalOrder ==
    [][pc = "dice_roll" =>
        LET after == player_status_table'
            ranked == {p \in DOMAIN after : after[p].order_of_arrival # None}
            first == FirstPassArrivals(dice')
            second == (ranked \ Arrived) \ first
        IN  /\ \A x \in Arrived : \A y \in ranked \ Arrived :
                  Rank(x) < after[y].order_of_arrival[1]
            /\ \A x \in first : \A y \in second :
                  after[x].order_of_arrival[1] < after[y].order_of_arrival[1]
            /\ \A x \in Arrived : after[x].order_of_arrival[1] = Rank(x)]_vars

\* a player was ranked by a roll after the roll that ranked another one
C36_Witness ==
    /\ pc = "next_player"
    /\ \E x, y \in Arrived :
          /\ Rank(x) < Rank(y)
          /\ y # current_player
          /\ x # current_player
          /\ current_player \notin Arrived

\* ================================================= waiting out a skip
\* boards for a wait: start, SkipSelf times=k, k + 1 squares without an
\* effect, goal; a dice of two faces; two or three players
WaitBoard(k) ==
    AreaList(<<Area(<<Effect("SkipSelf", k)>>)>>
             \o [i \in 1..(k + 1) |-> Area(<<Effect("NoEffect", 0)>>)])

WaitGames ==
    {[area_list |-> WaitBoard(k), dice_max |-> 2,
      player_order |-> SubSeq(Players, 1, n)] : k \in 1..MaxNum, n \in 2..3}

\* nobody waits
NoWait == [player |-> "", times |-> 0, turns |-> <<>>]

\* World::new and GameData::try_new; input keeps who waits, for how many
\* turns, and the turns the others have taken since
WaitInit ==
    \E g \in WaitGames :
        /\ area_list = g.area_list
        /\ dice_max = g.dice_max
        /\ num_goal_player = 0
        /\ player_order = g.player_order
        /\ player_status_table = StatusTable(g.player_order)
        /\ current_player = g.player_order[1]
        /\ pc = "dice_roll"
        /\ dice = 0
        /\ result = [kind |-> "Start", player |-> "", value |-> 0]
        /\ turn_log = <<>>
        /\ UiInit
        /\ input = NoWait

\* the wait after dice_roll left table t: it starts when the current
\* player has landed on the SkipSelf square while nobody else skips or has
\* arrived, goes on while the others roll and stay so, and is over
\* otherwise
WaitAfterRoll(t) ==
    LET others == DOMAIN t \ {current_player}
        quiet(S) == \A q \in S : t[q].num_skip = 0 /\ t[q].order_of_arrival = None
    IN  IF t[current_player].num_skip # 0
        THEN IF quiet(others) /\ t[current_player].order_of_arrival = None
             THEN [player |-> current_player,
                   times |-> area_list[t[current_player].position + 1].effect_list[1].num,
                   turns |-> [q \in others |-> 0]]
             ELSE NoWait
        ELSE IF input.player \notin {"", current_player}
                /\ quiet(DOMAIN t \ {input.player})
             THEN [input EXCEPT !.turns[current_player] = @ + 1]
             ELSE NoWait

\* World::dice_roll with a valid dice for the current player
WaitDiceRoll(d) ==
    /\ pc = "dice_roll"
    /\ LET r == dice_roll(area_list, dice_max, num_goal_player, d,
                          current_player, player_order, player_status_table)
       IN  /\ player_status_table' = r.tbl
           /\ num_goal_player' = r.num_goal_player
           /\ result' = r.res
           /\ pc' = AfterDiceRoll(r.res)
           /\ input' = WaitAfterRoll(r.tbl)
    /\ dice' = d
    /\ UNCHANGED <<area_list, dice_max, player_order, current_player, turn_log,
                   ui_vars>>

\* GameData::change_player
WaitChangePlayer ==
    /\ pc = "next_player"
    /\ LET r == next_player(player_order, current_player, player_status_table)
       IN  /\ player_status_table' = r.tbl
           /\ result' = r.res
           /\ current_player' = IF r.res.kind = "Some" THEN r.res.player
                                ELSE current_player
           /\ pc' = CASE r.res.kind = "Some" -> "dice_roll"
                      [] r.res.kind = "None" -> "finished"
                      [] OTHER -> "aborted"
    /\ UNCHANGED <<area_list, dice_max, num_goal_player, player_order, dice,
                   turn_log, ui_vars, input>>

WaitNext ==
    \/ \E d \in 1..dice_max : WaitDiceRoll(d)
    \/ WaitChangePlayer

SpecWait == WaitInit /\ [][WaitNext]_vars

\* C37: with two players or more, after a player landed on SkipSelf
\* times=k and while the others stay without arrival rank and without
\* pending skip, no other player takes more than k + 1 turns, and the
\* player is prompted to roll again only when every other player has taken
\* exactly k + 1 turns, its pending skips then being 0
C37_SkipWaitsOutEveryOther ==
    input.player # "" =>
        /\ \A q \in DOMAIN input.turns : input.turns[q] <= input.times + 1
        /\ (pc = "dice_roll" /\ current_player = input.player) =>
              /\ \A q \in DOMAIN input.turns : input.turns[q] = input.times + 1
              /\ player_status_table[current_player].num_skip = 0
        /\ (pc = "dice_roll" /\ current_player # input.player) =>
              input.turns[current_player] <= input.times

\* the player that landed on SkipSelf times=2 is prompted again after the
\* two others took three turns each
C37_Witness ==
    /\ input.player # ""
    /\ input.times = 2
    /\ Len(player_order) = 3
    /\ pc = "dice_roll"
    /\ current_player = input.player
    /\ \A q \in DOMAIN input.turns : input.turns[q] = 3

\* ================================================ the end of the game
\* the rolls counted at most
MaxRolls == 12

\* the effects that move nobody backward
ForwardEffects ==
    {e \in Effects : e.name \notin {"GoToStart", "PullSelf", "PullOthersAll"}}

\* the games on boards of such effects
ForwardGames ==
    {[area_list |-> AreaList(c), dice_max |-> d, player_order |-> r] :
        c \in UNION {[1..n -> {Area(<<e>>) : e \in ForwardEffects}] : n \in 0..MaxArea},
        d \in 1..MaxDice, r \in Rosters}

\* World::new and GameData::try_new; input counts the rolls
LoopInit ==
    \E g \in ForwardGames :
        /\ area_list = g.area_list
        /\ dice_max = g.dice_max
        /\ num_goal_player = 0
        /\ player_order = g.player_order
        /\ player_status_table = StatusTable(g.player_order)
        /\ current_player = g.player_order[1]
        /\ pc = "dice_roll"
        /\ dice = 0
        /\ result = [kind |-> "Start", player |-> "", value |-> 0]
        /\ turn_log = <<>>
        /\ UiInit
        /\ input = [rolls |-> 0]

\* World::dice_roll with a valid dice for the current player
LoopDiceRoll(d) ==
    /\ pc = "dice_roll"
    /\ input.rolls < MaxRolls
    /\ LET r == dice_roll(area_list, dice_max, num_goal_player, d,
                          current_player, player_order, player_status_table)
       IN  /\ player_status_table' = r.tbl
           /\ num_goal_player' = r.num_goal_player
           /\ result' = r.res
           /\ pc' = AfterDiceRoll(r.res)
    /\ dice' = d
    /\ input' = [rolls |-> input.rolls + 1]
    /\ UNCHANGED <<area_list, dice_max, player_order, current_player, turn_log,
                   ui_vars>>

\* GameData::change_player
LoopChangePlayer ==
    /\ pc = "next_player"
    /\ LET r == next_player(player_order, current_player, player_status_table)
       IN  /\ player_status_table' = r.tbl
           /\ result' = r.res
           /\ current_player' = IF r.res.kind = "Some" THEN r.res.player
                                ELSE current_player
           /\ pc' = CASE r.res.kind = "Some" -> "dice_roll"
                      [] r.res.kind = "None" -> "finished"
                      [] OTHER -> "aborted"
    /\ UNCHANGED <<area_list, dice_max, num_goal_player, player_order, dice,
                   turn_log, ui_vars, input>>

LoopNext ==
    \/ \E d \in 1..dice_max : LoopDiceRoll(d)
    \/ LoopChangePlayer

SpecLoop == LoopInit /\ [][LoopNext]_vars

\* the squares the players without arrival rank in table t still have to
\* go, those of the first n roster players
RECURSIVE SquaresToGo(_, _)
SquaresToGo(t, n) ==
    IF n = 0 THEN 0
    ELSE SquaresToGo(t, n - 1)
         + IF t[player_order[n]].order_of_arrival = None
           THEN last_area_index - t[player_order[n]].position
           ELSE 0

\* C38: on a board without GoToStart, PullSelf and PullOthersAll the turn
\* loop of dice_roll with a valid dice and next_player terminates, with
\* next_player returning None after at most number of players times last
\* area index rolls: every roll succeeds and takes at least one square off
\* what the players without rank still have to go, which is number of
\* players times last area index at the start; next_player either names a
\* player without rank to roll next or returns None and ends the loop, and
\* returns None when nothing is left to go
C38_TurnLoopTerminates ==
    [][LET n == Len(player_order)
           togo == SquaresToGo(player_status_table, n)
           togo_after == SquaresToGo(player_status_table', n)
       IN  /\ pc = "dice_roll" =>
                 /\ pc' = "next_player"
                 /\ IsOk(result')
                 /\ togo_after < togo
           /\ pc = "next_player" =>
                 /\ togo_after = togo
                 /\ \/ result'.kind = "None" /\ pc' = "finished"
                    \/ /\ result'.kind = "Some" /\ pc' = "dice_roll"
                       /\ player_status_table'[current_player'].order_of_arrival = None
                       /\ togo > 0
           /\ togo_after >= 0
           /\ input'.rolls + togo_after <= n * last_area_index]_vars

\* three players took every roll the bound allows before next_player
\* returned None
C38_Witness ==
    /\ pc = "finished"
    /\ result.kind = "None"
    /\ Len(player_order) = 3
    /\ input.rolls = Len(player_order) * last_area_index

====
